---- MODULE Spec2Model ----
(***************************************************************************)
(* M-Heath Annotator: the state store (backend/core/db_manager.py), the    *)
(* file based rate limiter (backend/core/rate_limiter.py), the worker loop *)
(* (backend/core/worker.py) and the supervisor                             *)
(* (backend/core/worker_manager.py) as one state machine.                  *)
(*                                                                         *)
(* Every database transaction, every file read or write and every process *)
(* spawn or kill is one atomic step.  Wall-clock conditions (heartbeat     *)
(* interval elapsed, control_check_seconds elapsed, acquire timeout) are   *)
(* boolean inputs of the step that tests them.                             *)
(***************************************************************************)
EXTENDS Integers, Sequences, FiniteSets, Bags, TLC

(***************************************************************************)
(* Bounds of the model                                                     *)
(***************************************************************************)
\* rows of the sample corpus (the Excel sheet read by DatasetLoader)
DatasetLen == 3
\* process ids the operating system hands out during one behaviour
MaxPid == 2
\* main-loop iterations of one worker process in SpecWorker
WorkerIters == 3
\* UTC dates after the first one
MaxDay == 1
\* requests_per_day of the RateLimiter that SpecLimiter constructs
LimiterPerDay == 2
\* burst_size of the RateLimiter that SpecLimiter constructs
LimiterBurst == 1
\* main-loop iterations of one worker process in SpecLimiter
LimiterIters == 3
\* target_count of every pair in SpecLimiter
LimiterTarget == 2
\* target_count of every pair in SpecStore and SpecSupervisor
SmallTarget == 1
\* main-loop iterations of one worker process in SpecSupervisor
SupervisedIters == 1
\* WorkerManager(max_concurrent_workers=...), scaled down (default 10)
max_concurrent_workers == 1
\* target_count of every configured pair in settings.json
TargetCount == 3

(***************************************************************************)
(* Program constants                                                       *)
(***************************************************************************)
\* SQL NULL in workers.pid / missing dictionary entry
NoPid == 0
\* settings["global"]["control_check_iterations"]
control_check_iterations == 5
\* "Update speed every 10 samples"
SpeedEvery == 10
\* AnnotationWorker.__init__: RateLimiter(requests_per_day=1500, ...)
WorkerPerDay == 1500
\* AnnotationWorker.__init__: RateLimiter(..., burst_size=5)
WorkerBurst == 5

AnnotatorIds == {1}
Domains == {"urgency", "therapeutic"}
\* one worker per (annotator_id, domain)
Pairs == AnnotatorIds \X Domains
Pids == 1..MaxPid

\* the rate limiter file of a pair: f"annotator_{annotator_id}"
api_key_id(w) == w[1]
ApiKeyIds == {api_key_id(w) : w \in Pairs}

\* row index (0-based) -> the row's ID column; rows carry distinct IDs
SampleIdAt(index) == index + 1
SampleIds == {SampleIdAt(i) : i \in 0..(DatasetLen - 1)}
NoSample == [found |-> FALSE, id |-> 0]

\* DatasetLoader.get_sample_by_index
get_sample_by_index(index) ==
  IF index < 0 \/ index >= DatasetLen
  THEN NoSample
  ELSE [found |-> TRUE, id |-> SampleIdAt(index)]

\* the label the parser extracts from a valid response to sample id
LabelOf(id) == <<"L", id>>
MALFORMED == <<"MALFORMED">>

VARIABLES
  db,          \* the SQLite database: workers, completed_samples, annotations,
               \* heartbeats, worker_events
  limits,      \* RateLimiter.requests_per_day and RateLimiter.burst_size
  limiter,     \* data/rate_limiter/<api_key_id>.json
  control,     \* control/annotator_<a>_<d>.json
  today,       \* the current UTC date
  procs,       \* the operating system's worker processes, by pid
  processes,   \* WorkerManager.processes: (annotator_id, domain) -> Popen
  stops,       \* stop_worker calls in progress, by pair
  out,         \* what the last supervisor or store call returned
  lastCrash,   \* history: the store as the last process killed between
               \* save_annotation and add_completed_sample left it
  settings,    \* config/settings.json: is (annotator_id, domain) enabled
  userStopped, \* history: stop_worker called by a user returned stopped for
               \* the pair and no user has started it since
  watchdog,    \* WorkerWatchdog: restart_attempts, blacklist, the restart in
               \* progress, data/process_registry/workers.json and
               \* data/heartbeats/*.json
  progress,    \* data/annotations/annotator_<a>/<d>/progress.json
  scan         \* the get_all_running_workers call in progress: the rows its
               \* SELECT returned and are still to be verified, and its list

vars == <<db, limits, limiter, control, today, procs, processes, stops, out, lastCrash,
          settings, userStopped, watchdog, progress, scan>>

(***************************************************************************)
(* State store                                                             *)
(***************************************************************************)
NoHeartbeat == [present |-> FALSE, pid |-> NoPid, heartbeat_status |-> "none", fresh |-> FALSE]

\* a workers row as INSERT INTO workers (annotator_id, domain, enabled, target_count) leaves it
NewWorkerRow(enabled, target_count) ==
  [status |-> "not_started", pid |-> NoPid, enabled |-> enabled,
   target_count |-> target_count, total_completed |-> 0, total_malformed |-> 0,
   samples_per_min |-> 0]

\* rows of a table (a bag) that belong to worker w
RowsOf(table, w) == {r \in BagToSet(table) : r.worker = w}
\* number of rows of a table with the given worker and sample_id
CountRows(table, w, id) ==
  LET rs == {r \in BagToSet(table) : r.worker = w /\ r.sample_id = id}
      RECURSIVE Sum(_)
      Sum(S) == IF S = {} THEN 0
                ELSE LET r == CHOOSE x \in S : TRUE
                     IN CopiesIn(r, table) + Sum(S \ {r})
  IN Sum(rs)
\* number of rows of a table that belong to worker w
CountWorkerRows(table, w) ==
  LET rs == RowsOf(table, w)
      RECURSIVE Sum(_)
      Sum(S) == IF S = {} THEN 0
                ELSE LET r == CHOOSE x \in S : TRUE
                     IN CopiesIn(r, table) + Sum(S \ {r})
  IN Sum(rs)

\* DatabaseManager.update_worker_status
update_worker_status(d, w, status, pid, log_event) ==
  LET row == d.workers[w]
      newrow ==
        IF status = "running" /\ pid # NoPid
        THEN [row EXCEPT !.status = status, !.pid = pid]
        ELSE IF status \in {"stopped", "completed", "crashed"}
        THEN [row EXCEPT !.status = status, !.pid = NoPid]
        ELSE [row EXCEPT !.status = status]
  IN [d EXCEPT !.workers[w] = newrow,
               !.worker_events = IF log_event THEN @ \cup {w} ELSE @]

\* DatabaseManager.register_worker_process
register_worker_process(d, w, pid) == update_worker_status(d, w, "running", pid, TRUE)

\* DatabaseManager.unregister_worker_process
unregister_worker_process(d, w) ==
  [d EXCEPT !.workers[w].pid = NoPid, !.heartbeats[w] = NoHeartbeat]

\* DatabaseManager.send_heartbeat (pid is os.getpid() of the caller)
send_heartbeat(d, w, pid, heartbeat_status) ==
  [d EXCEPT !.heartbeats[w] =
     [present |-> TRUE, pid |-> pid, heartbeat_status |-> heartbeat_status, fresh |-> TRUE]]

\* DatabaseManager.cleanup_heartbeat
cleanup_heartbeat(d, w) == [d EXCEPT !.heartbeats[w] = NoHeartbeat]

\* DatabaseManager._is_process_running: /proc/<pid>/cmdline names worker.py
\* with this pair's --annotator and --domain
is_process_running(pid, w) ==
  /\ pid # NoPid
  /\ pid \in Pids
  /\ procs[pid].state = "alive"
  /\ procs[pid].pair = w

\* DatabaseManager.get_worker_status: the row joined with its heartbeat
get_worker_status(d, w) ==
  LET row == d.workers[w]
      h == d.heartbeats[w]
      heartbeat_alive == h.present /\ h.fresh
      stale == row.status = "running" /\ ~heartbeat_alive
      status == IF stale THEN "crashed" ELSE row.status
  IN [status |-> status,
      pid |-> row.pid,
      enabled |-> row.enabled,
      target_count |-> row.target_count,
      total_completed |-> row.total_completed,
      total_malformed |-> row.total_malformed,
      samples_per_min |-> row.samples_per_min,
      heartbeat_alive |-> heartbeat_alive,
      stale |-> stale,
      running |-> (status = "running" /\ heartbeat_alive)]

\* the rows SELECTed by get_all_running_workers
RunningRows(d) == {w \in Pairs : d.workers[w].status = "running" /\ d.workers[w].pid # NoPid}

\* DatabaseManager.get_all_running_workers: the list it returns
running_workers(d) == {w \in RunningRows(d) : is_process_running(d.workers[w].pid, w)}

\* DatabaseManager.get_all_running_workers: the database it leaves
\* (every selected row whose process is dead is updated to crashed)
RECURSIVE MarkCrashed(_, _)
MarkCrashed(d, ws) ==
  IF ws = {} THEN d
  ELSE LET w == CHOOSE x \in ws : TRUE
       IN MarkCrashed(update_worker_status(d, w, "crashed", NoPid, TRUE), ws \ {w})
get_all_running_workers(d) == MarkCrashed(d, RunningRows(d) \ running_workers(d))

\* the UNIQUE (worker_id, sample_id) index of completed_samples (db_schema.sql)
UniqueConflict(table, w, id) == CountRows(table, w, id) > 0

\* a plain INSERT INTO completed_samples
InsertAlways(table, row) == table (+) SetToBag({row})

\* INSERT OR IGNORE INTO completed_samples
InsertOrIgnore(table, row) ==
  IF UniqueConflict(table, row.worker, row.sample_id)
  THEN table
  ELSE table (+) SetToBag({row})

\* add_completed_sample without its UPDATE of the workers counters
add_completed_sample_uncounted(d, w, id, label, malformed) ==
  LET row == [worker |-> w, sample_id |-> id, label |-> label, is_malformed |-> malformed]
  IN [d EXCEPT !.completed_samples = InsertOrIgnore(@, row)]

\* DatabaseManager.add_completed_sample
add_completed_sample(d, w, id, label, malformed) ==
  LET row == [worker |-> w, sample_id |-> id, label |-> label, is_malformed |-> malformed]
      d1 == [d EXCEPT !.completed_samples = InsertOrIgnore(@, row)]
  IN IF malformed
     THEN [d1 EXCEPT !.workers[w].total_malformed = @ + 1]
     ELSE [d1 EXCEPT !.workers[w].total_completed = @ + 1]

\* DatabaseManager.save_annotation
save_annotation(d, w, result) ==
  [d EXCEPT !.annotations = @ (+) SetToBag({[worker |-> w, sample_id |-> result.id,
                                            label |-> result.label,
                                            is_malformed |-> result.malformed]})]

\* DatabaseManager.update_speed
update_speed(d, w, samples_per_min) == [d EXCEPT !.workers[w].samples_per_min = samples_per_min]

\* DatabaseManager.transaction: commit, or rollback when the block raises
transaction(before, after, raised) == IF raised THEN before ELSE after

\* factory_reset: the DELETE, UPDATE and INSERT OR REPLACE statements
factory_reset_statements(d) ==
  [workers |-> [w \in Pairs |->
                  [d.workers[w] EXCEPT !.status = "not_started", !.pid = NoPid,
                                       !.total_completed = 0, !.total_malformed = 0,
                                       !.samples_per_min = 0]],
   completed_samples |-> EmptyBag,
   annotations |-> EmptyBag,
   heartbeats |-> [w \in Pairs |-> NoHeartbeat],
   worker_events |-> {}]

\* conn.execute('VACUUM'): sqlite3 refuses it while a transaction is open
\* ("cannot VACUUM from within a transaction")
vacuum_raises(in_transaction) == in_transaction

\* DatabaseManager.factory_reset: the database it leaves; the statements
\* before VACUUM have opened a transaction
factory_reset(d) == transaction(d, factory_reset_statements(d), vacuum_raises(TRUE))


(***************************************************************************)
(* Rate limiter.  Time is counted in refill periods: one period            *)
(* (60 / requests_per_minute seconds) refills one token.  A state file     *)
(* keeps last_refill as age, the periods elapsed since it was written;     *)
(* beyond burst_size periods the refill saturates, so age stops there.     *)
(***************************************************************************)
NoState == [present |-> FALSE, tokens |-> 0, age |-> 0, requests_today |-> 0,
            day_start |-> 0, total_requests |-> 0]

Min(a, b) == IF a < b THEN a ELSE b
Max(a, b) == IF a > b THEN a ELSE b

\* RateLimiter._load_state: the state it returns (a missing file is initialised)
load_state(files, c) ==
  IF files[c].present
  THEN files[c]
  ELSE [present |-> TRUE, tokens |-> limits.burst_size, age |-> 0, requests_today |-> 0,
        day_start |-> today, total_requests |-> 0]

\* RateLimiter._load_state: the files it leaves (the initial state is saved)
load_state_files(files, c) == [files EXCEPT ![c] = load_state(files, c)]

\* RateLimiter._refill_tokens
refill_tokens(state) ==
  [state EXCEPT !.tokens = Min(state.tokens + state.age, limits.burst_size), !.age = 0]

\* RateLimiter._check_daily_limit: the state it leaves (the caller's copy)
check_daily_limit_state(state) ==
  IF state.day_start # today
  THEN [state EXCEPT !.day_start = today, !.requests_today = 0]
  ELSE state

\* RateLimiter._check_daily_limit: the value it returns
check_daily_limit(state) == check_daily_limit_state(state).requests_today < limits.requests_per_day

\* RateLimiter.can_make_request: "proceed" is (True, 0.0), "daily" is
\* (False, None), "wait" is (False, wait_time)
can_make_request(files, c) ==
  LET state == refill_tokens(load_state(files, c))
  IN IF ~check_daily_limit(state) THEN "daily"
     ELSE IF state.tokens >= 1 THEN "proceed"
     ELSE "wait"

\* a consume_token that subtracts the token without the max(0, ...) clamp
consume_token_unclamped(loaded) ==
  LET state == refill_tokens(loaded)
  IN [state EXCEPT !.tokens = state.tokens - 1,
                   !.requests_today = @ + 1,
                   !.total_requests = @ + 1]

\* RateLimiter.consume_token, from the loaded state to the saved one
consume_token(loaded) ==
  LET state == refill_tokens(loaded)
  IN [state EXCEPT !.tokens = Max(0, state.tokens - 1),
                   !.requests_today = @ + 1,
                   !.total_requests = @ + 1]

(***************************************************************************)
(* Worker processes                                                        *)
(***************************************************************************)
NoResult == [id |-> 0, label |-> MALFORMED, malformed |-> FALSE]
AnyPair == CHOOSE w \in Pairs : TRUE
NoProc == [state |-> "unused", pair |-> AnyPair, pc |-> "none", iteration_count |-> 0,
           sample |-> NoSample, result |-> NoResult, rl |-> NoState]

Alive(p) == procs[p].state = "alive"
LiveProcs(w) == {p \in Pids : Alive(p) /\ procs[p].pair = w}
UnusedPids == {p \in Pids : procs[p].state = "unused"}
\* the pid the operating system gives the next process
NextPid == CHOOSE p \in UnusedPids : \A q \in UnusedPids : p <= q

\* the process table after `python worker.py --annotator a --domain d` is executed
Spawn(ps, pid, w) == [ps EXCEPT ![pid] = [NoProc EXCEPT !.state = "alive", !.pair = w, !.pc = "start"]]

At(p, pc) == Alive(p) /\ procs[p].pc = pc
Goto(p, pc) == procs' = [procs EXCEPT ![p].pc = pc]
\* run() returns and main() calls sys.exit(0)
Exit(p) == procs' = [procs EXCEPT ![p] = [NoProc EXCEPT !.state = "dead", !.pair = procs[p].pair,
                                                     !.pc = "exited"]]

WorkerUnchanged == UNCHANGED <<limits, control, today, processes, stops, out, lastCrash, settings,
                 userStopped, watchdog,
                 progress, scan>>

\* worker.py executed by hand or by a process supervisor outside this
\* repository, once no process of the pair is left
WorkerMain(w) ==
  /\ UnusedPids # {}
  /\ LiveProcs(w) = {}
  /\ procs' = Spawn(procs, NextPid, w)
  /\ UNCHANGED <<db, limits, limiter, control, today, processes, stops, out, lastCrash, settings,
                 userStopped, watchdog,
                 progress, scan>>

\* run(): register_worker_process(annotator_id, domain, os.getpid())
WRegister(p) ==
  /\ At(p, "start")
  /\ db' = register_worker_process(db, procs[p].pair, p)
  /\ Goto(p, "hb0")
  /\ UNCHANGED limiter /\ WorkerUnchanged

\* run(): send_heartbeat(annotator_id, domain, 0, "running")
WFirstHeartbeat(p) ==
  /\ At(p, "hb0")
  /\ db' = send_heartbeat(db, procs[p].pair, p, "running")
  /\ Goto(p, "prompt")
  /\ UNCHANGED limiter /\ WorkerUnchanged

\* run(): load_prompt() finds a template
WLoadPrompt(p) ==
  /\ At(p, "prompt")
  /\ Goto(p, "loop")
  /\ UNCHANGED <<db, limiter>> /\ WorkerUnchanged

\* run(): load_prompt() raises FileNotFoundError; status stopped, return
WPromptMissing(p) ==
  /\ At(p, "prompt")
  /\ db' = update_worker_status(db, procs[p].pair, "stopped", NoPid, TRUE)
  /\ Exit(p)
  /\ UNCHANGED limiter /\ WorkerUnchanged

\* main loop: iteration_count += 1; _send_heartbeat_if_needed("running")
WLoopTop(p, hb_due) ==
  /\ At(p, "loop")
  /\ procs' = [procs EXCEPT ![p].iteration_count = @ + 1, ![p].pc = "control"]
  /\ db' = IF hb_due THEN send_heartbeat(db, procs[p].pair, p, "running") ELSE db
  /\ UNCHANGED limiter /\ WorkerUnchanged

\* should_check_control without its iteration test
should_check_control_by_time(p, time_due) ==
  time_due

\* AnnotationWorker.should_check_control
should_check_control(p, time_due) ==
  \/ procs[p].iteration_count % control_check_iterations = 0
  \/ time_due

\* AnnotationWorker.check_control_signal: the file is read, never removed
check_control_signal(w) == control[w]

\* main loop: no control check is due, or the file holds no pause or stop
WControlNone(p, time_due) ==
  /\ At(p, "control")
  /\ \/ ~should_check_control(p, time_due)
     \/ check_control_signal(procs[p].pair) \notin {"pause", "stop"}
  /\ Goto(p, "select")
  /\ UNCHANGED <<db, limiter>> /\ WorkerUnchanged

\* main loop: command == "pause"; handle_pause persists status paused
WControlPause(p, time_due) ==
  /\ At(p, "control")
  /\ should_check_control(p, time_due)
  /\ check_control_signal(procs[p].pair) = "pause"
  /\ db' = update_worker_status(db, procs[p].pair, "paused", NoPid, TRUE)
  /\ Goto(p, "pause_hb")
  /\ UNCHANGED limiter /\ WorkerUnchanged

\* handle_pause: send_heartbeat(..., "paused")
WPauseHeartbeat(p) ==
  /\ At(p, "pause_hb")
  /\ db' = send_heartbeat(db, procs[p].pair, p, "paused")
  /\ Goto(p, "paused")
  /\ UNCHANGED limiter /\ WorkerUnchanged

\* handle_pause wait loop: heartbeat if due; neither resume nor stop in the file
WPausedWait(p, hb_due) ==
  /\ At(p, "paused")
  /\ check_control_signal(procs[p].pair) \notin {"resume", "stop"}
  /\ db' = IF hb_due THEN send_heartbeat(db, procs[p].pair, p, "paused") ELSE db
  /\ UNCHANGED <<procs, limiter>> /\ WorkerUnchanged

\* handle_pause wait loop: command == "resume"; status running (no pid given)
WPausedResume(p, hb_due) ==
  /\ At(p, "paused")
  /\ check_control_signal(procs[p].pair) = "resume"
  /\ db' = update_worker_status(
             IF hb_due THEN send_heartbeat(db, procs[p].pair, p, "paused") ELSE db,
             procs[p].pair, "running", NoPid, TRUE)
  /\ Goto(p, "resume_hb")
  /\ UNCHANGED limiter /\ WorkerUnchanged

\* handle_pause: send_heartbeat(..., "running"); back to the main loop
WResumeHeartbeat(p) ==
  /\ At(p, "resume_hb")
  /\ db' = send_heartbeat(db, procs[p].pair, p, "running")
  /\ Goto(p, "loop")
  /\ UNCHANGED limiter /\ WorkerUnchanged

\* handle_pause wait loop: command == "stop"; should_stop_flag ends the main
\* loop, no status is written
WPausedStop(p, hb_due) ==
  /\ At(p, "paused")
  /\ check_control_signal(procs[p].pair) = "stop"
  /\ db' = IF hb_due THEN send_heartbeat(db, procs[p].pair, p, "paused") ELSE db
  /\ Goto(p, "cleanup")
  /\ UNCHANGED limiter /\ WorkerUnchanged

\* main loop: command == "stop"; handle_stop persists status stopped
WControlStop(p, time_due) ==
  /\ At(p, "control")
  /\ should_check_control(p, time_due)
  /\ check_control_signal(procs[p].pair) = "stop"
  /\ db' = update_worker_status(db, procs[p].pair, "stopped", NoPid, TRUE)
  /\ Goto(p, "stop_hb")
  /\ UNCHANGED limiter /\ WorkerUnchanged

\* handle_stop, and the INVALID_API_KEY handler: send_heartbeat(..., "stopped")
WStopHeartbeat(p) ==
  /\ At(p, "stop_hb")
  /\ db' = send_heartbeat(db, procs[p].pair, p, "stopped")
  /\ Goto(p, "cleanup")
  /\ UNCHANGED limiter /\ WorkerUnchanged

\* a selection that indexes the corpus by the annotations written so far
get_next_sample_by_annotations(d, w) ==
  LET status == get_worker_status(d, w)
      written == CountWorkerRows(d.annotations, w)
  IN IF written >= status.target_count
     THEN NoSample
     ELSE get_sample_by_index(written)

\* AnnotationWorker.get_next_sample
get_next_sample(d, w) ==
  LET status == get_worker_status(d, w)
      completed_count == status.total_completed
  IN IF completed_count >= status.target_count
     THEN NoSample
     ELSE get_sample_by_index(completed_count)

\* main loop: get_next_sample() returns a sample
WSelect(p) ==
  /\ At(p, "select")
  /\ get_next_sample(db, procs[p].pair).found
  /\ procs' = [procs EXCEPT ![p].sample = get_next_sample(db, procs[p].pair),
                            ![p].pc = "can"]
  /\ UNCHANGED <<db, limiter>> /\ WorkerUnchanged

\* main loop: get_next_sample() returns None; status completed
WTargetReached(p) ==
  /\ At(p, "select")
  /\ ~get_next_sample(db, procs[p].pair).found
  /\ db' = update_worker_status(db, procs[p].pair, "completed", NoPid, TRUE)
  /\ Goto(p, "done_hb")
  /\ UNCHANGED limiter /\ WorkerUnchanged

\* main loop: send_heartbeat(..., "completed"); break
WCompletedHeartbeat(p) ==
  /\ At(p, "done_hb")
  /\ db' = send_heartbeat(db, procs[p].pair, p, "completed")
  /\ Goto(p, "cleanup")
  /\ UNCHANGED limiter /\ WorkerUnchanged

\* acquire_sync: can_make_request() says proceed
WCanProceed(p) ==
  /\ At(p, "can")
  /\ can_make_request(limiter, api_key_id(procs[p].pair)) = "proceed"
  /\ limiter' = load_state_files(limiter, api_key_id(procs[p].pair))
  /\ Goto(p, "consume")
  /\ UNCHANGED db /\ WorkerUnchanged

\* acquire_sync: no token yet and the timeout has not elapsed; sleep and retry
WCanWait(p) ==
  /\ At(p, "can")
  /\ can_make_request(limiter, api_key_id(procs[p].pair)) = "wait"
  /\ limiter' = load_state_files(limiter, api_key_id(procs[p].pair))
  /\ UNCHANGED <<db, procs>> /\ WorkerUnchanged

\* acquire_sync returns False (timeout elapsed, or the daily limit is reached);
\* annotate_sample raises RATE_LIMIT_TIMEOUT, which run() catches
WCanFail(p, timed_out) ==
  /\ At(p, "can")
  /\ \/ can_make_request(limiter, api_key_id(procs[p].pair)) = "daily"
     \/ can_make_request(limiter, api_key_id(procs[p].pair)) = "wait" /\ timed_out
  /\ limiter' = load_state_files(limiter, api_key_id(procs[p].pair))
  /\ Goto(p, "rl_hb")
  /\ UNCHANGED db /\ WorkerUnchanged

\* consume_token: state = self._load_state(api_key_id)
WConsumeLoad(p) ==
  /\ At(p, "consume")
  /\ limiter' = load_state_files(limiter, api_key_id(procs[p].pair))
  /\ procs' = [procs EXCEPT ![p].rl = load_state(limiter, api_key_id(procs[p].pair)),
                            ![p].pc = "consume_save"]
  /\ UNCHANGED db /\ WorkerUnchanged

\* consume_token: refill, take the token, count the request, _save_state
WConsumeSave(p) ==
  /\ At(p, "consume_save")
  /\ limiter' = [limiter EXCEPT ![api_key_id(procs[p].pair)] = consume_token(procs[p].rl)]
  /\ procs' = [procs EXCEPT ![p].rl = NoState, ![p].pc = "generate"]
  /\ UNCHANGED db /\ WorkerUnchanged

\* what gemini.generate and the parser make of one sample
Outcomes == {"ok", "parse_error", "validity_error", "api_error", "RATE_LIMIT", "INVALID_KEY"}

\* annotate_sample: the result dictionary of a sample that is recorded
annotation_result(sample, outcome) ==
  IF outcome = "ok"
  THEN [id |-> sample.id, label |-> LabelOf(sample.id), malformed |-> FALSE]
  ELSE [id |-> sample.id, label |-> MALFORMED, malformed |-> TRUE]

\* a run() that records the sample before its annotation is saved
WAnnotateUnsaved(p, outcome) ==
  /\ At(p, "generate")
  /\ outcome \in {"ok", "parse_error", "validity_error", "api_error"}
  /\ procs' = [procs EXCEPT ![p].result = annotation_result(procs[p].sample, outcome),
                            ![p].pc = "add"]
  /\ UNCHANGED <<db, limiter>> /\ WorkerUnchanged

\* annotate_sample returns a result (a label, or MALFORMED)
WAnnotate(p, outcome) ==
  /\ At(p, "generate")
  /\ outcome \in {"ok", "parse_error", "validity_error", "api_error"}
  /\ procs' = [procs EXCEPT ![p].result = annotation_result(procs[p].sample, outcome),
                            ![p].pc = "save"]
  /\ UNCHANGED <<db, limiter>> /\ WorkerUnchanged

\* annotate_sample: error == "RATE_LIMIT"; status paused, raise RATE_LIMIT_HIT
WRateLimitHit(p) ==
  /\ At(p, "generate")
  /\ db' = update_worker_status(db, procs[p].pair, "paused", NoPid, TRUE)
  /\ Goto(p, "rl_hb")
  /\ UNCHANGED limiter /\ WorkerUnchanged

\* run(): "RATE_LIMIT" in error_str; send_heartbeat(..., "paused"); break
WRateLimitHeartbeat(p) ==
  /\ At(p, "rl_hb")
  /\ db' = send_heartbeat(db, procs[p].pair, p, "paused")
  /\ Goto(p, "cleanup")
  /\ UNCHANGED limiter /\ WorkerUnchanged

\* an INVALID_KEY answer recorded as a malformed sample before the worker stops
WInvalidKeyRecorded(p) ==
  /\ At(p, "generate")
  /\ db' = add_completed_sample(
             update_worker_status(db, procs[p].pair, "stopped", NoPid, TRUE),
             procs[p].pair, procs[p].sample.id, MALFORMED, TRUE)
  /\ Goto(p, "stop_hb")
  /\ UNCHANGED limiter /\ WorkerUnchanged

\* annotate_sample raises INVALID_API_KEY; run() persists status stopped
WInvalidKey(p) ==
  /\ At(p, "generate")
  /\ db' = update_worker_status(db, procs[p].pair, "stopped", NoPid, TRUE)
  /\ Goto(p, "stop_hb")
  /\ UNCHANGED limiter /\ WorkerUnchanged

\* AnnotationWorker.save_annotation
WSaveAnnotation(p) ==
  /\ At(p, "save")
  /\ db' = save_annotation(db, procs[p].pair, procs[p].result)
  /\ Goto(p, "add")
  /\ UNCHANGED limiter /\ WorkerUnchanged

\* run(): self.db.add_completed_sample(...); then the speed update if it is
\* due, else time.sleep(request_delay) and the next iteration
WAddCompleted(p) ==
  /\ At(p, "add")
  /\ db' = add_completed_sample(db, procs[p].pair, procs[p].sample.id,
                                procs[p].result.label, procs[p].result.malformed)
  /\ Goto(p, IF procs[p].iteration_count % SpeedEvery = 0 THEN "speed" ELSE "loop")
  /\ UNCHANGED limiter /\ WorkerUnchanged

\* samples_per_min = (samples_done / elapsed) * 60, kept as its sign
SpeedOf(samples_done) == IF samples_done > 0 THEN 1 ELSE 0

\* run(): update speed every 10 samples
WUpdateSpeed(p) ==
  /\ At(p, "speed")
  /\ db' = update_speed(db, procs[p].pair,
                        SpeedOf(get_worker_status(db, procs[p].pair).total_completed))
  /\ Goto(p, "loop")
  /\ UNCHANGED limiter /\ WorkerUnchanged

\* run(): cleanup_heartbeat, return
WCleanup(p) ==
  /\ At(p, "cleanup")
  /\ db' = cleanup_heartbeat(db, procs[p].pair)
  /\ Exit(p)
  /\ UNCHANGED limiter /\ WorkerUnchanged

NoCrash == [happened |-> FALSE, pair |-> AnyPair, sample |-> 0,
            annotations |-> 0, counted |-> 0]
\* total_completed + total_malformed of worker w
Counted(d, w) == d.workers[w].total_completed + d.workers[w].total_malformed
\* what the store holds when p dies between save_annotation and add_completed_sample
CrashRecord(p) ==
  [happened |-> TRUE, pair |-> procs[p].pair, sample |-> procs[p].sample.id,
   annotations |-> CountRows(db.annotations, procs[p].pair, procs[p].sample.id),
   counted |-> Counted(db, procs[p].pair)]

\* the process dies where it stands (kill -9, out of memory, power loss)
Kill(p) ==
  /\ Alive(p)
  /\ procs' = [procs EXCEPT ![p] = [NoProc EXCEPT !.state = "dead", !.pair = procs[p].pair,
                                             !.pc = "killed"]]
  /\ lastCrash' = IF procs[p].pc = "add" THEN CrashRecord(p) ELSE lastCrash
  /\ UNCHANGED <<db, limits, limiter, control, today, processes, stops, out, settings,
                 userStopped, watchdog,
                 progress, scan>>

(***************************************************************************)
(* Time                                                                    *)
(***************************************************************************)
\* more than two minutes pass since the heartbeat of w was written
HeartbeatAges(w) ==
  /\ db.heartbeats[w].present
  /\ db.heartbeats[w].fresh
  /\ db' = [db EXCEPT !.heartbeats[w].fresh = FALSE]
  /\ UNCHANGED <<limits, limiter, control, today, procs, processes, stops, out, lastCrash, settings,
                 userStopped, watchdog,
                 progress, scan>>

\* one refill period passes
TimePasses ==
  /\ \E c \in ApiKeyIds : limiter[c].present /\ limiter[c].age < limits.burst_size
  /\ limiter' = [c \in ApiKeyIds |->
                   IF limiter[c].present
                   THEN [limiter[c] EXCEPT !.age = Min(@ + 1, limits.burst_size)]
                   ELSE limiter[c]]
  /\ UNCHANGED <<db, limits, control, today, procs, processes, stops, out, lastCrash, settings,
                 userStopped, watchdog,
                 progress, scan>>

\* midnight UTC
DayRollover ==
  /\ today < MaxDay
  /\ today' = today + 1
  /\ UNCHANGED <<db, limits, limiter, control, procs, processes, stops, out, lastCrash, settings,
                 userStopped, watchdog,
                 progress, scan>>

(***************************************************************************)
(* Initial state: WorkerManager.__init__ has run initialize_workers on an  *)
(* empty database; every pair is enabled.                                  *)
(***************************************************************************)
NoOut == [op |-> "none", pair |-> AnyPair, status |-> "none", pid |-> NoPid]
NoStop == [phase |-> "idle", pid |-> NoPid, handle |-> NoPid]
\* WorkerWatchdog.__init__: nothing counted, nobody blacklisted; no file in
\* data/process_registry or data/heartbeats
NoWatchdog ==
  [restart_attempts |-> [w \in Pairs |-> 0],
   blacklist |-> {},
   to_restart |-> {},
   restarting |-> [w \in Pairs |-> "none"],
   registry |-> [w \in Pairs |-> NoPid],
   heartbeat_files |-> [w \in Pairs |-> "none"]]

InitDb(target_count) ==
  [workers |-> [w \in Pairs |-> NewWorkerRow(TRUE, target_count)],
   completed_samples |-> EmptyBag,
   annotations |-> EmptyBag,
   heartbeats |-> [w \in Pairs |-> NoHeartbeat],
   worker_events |-> {}]

\* no get_all_running_workers call is in progress
NoScan == [phase |-> "idle", rows |-> {}, inspected |-> {}, running_workers |-> {}]

\* progress.json does not exist
NoProgress == [exists |-> FALSE, text |-> <<>>]

\* the state after construction with the settings file given
InitSettings(per_day, burst, target_count, enabled) ==
  /\ db = [InitDb(target_count) EXCEPT
             !.workers = [w \in Pairs |-> NewWorkerRow(enabled[w], target_count)]]
  /\ limits = [requests_per_day |-> per_day, burst_size |-> burst]
  /\ limiter = [c \in ApiKeyIds |-> NoState]
  /\ control = [w \in Pairs |-> "none"]
  /\ today = 0
  /\ procs = [p \in Pids |-> NoProc]
  /\ processes = [w \in Pairs |-> NoPid]
  /\ stops = [w \in Pairs |-> NoStop]
  /\ out = NoOut
  /\ lastCrash = NoCrash
  /\ settings = enabled
  /\ userStopped = [w \in Pairs |-> FALSE]
  /\ progress = [w \in Pairs |-> NoProgress]
  /\ scan = NoScan
  /\ watchdog = NoWatchdog

InitWith(per_day, burst, target_count) ==
  InitSettings(per_day, burst, target_count, [w \in Pairs |-> TRUE])

\* the limiter every worker process constructs
Init == InitWith(WorkerPerDay, WorkerBurst, TargetCount)

\* a step of worker process p outside the loop head, the control commands
\* and the speed update
WorkerBody(p) ==
  \/ WRegister(p)
  \/ WFirstHeartbeat(p)
  \/ WLoadPrompt(p)
  \/ WPromptMissing(p)
  \/ \E time_due \in BOOLEAN : WControlNone(p, time_due)
  \/ WSelect(p)
  \/ WTargetReached(p)
  \/ WCompletedHeartbeat(p)
  \/ WCanProceed(p)
  \/ WConsumeLoad(p)
  \/ WConsumeSave(p)
  \/ WSaveAnnotation(p)
  \/ WAddCompleted(p)
  \/ WCleanup(p)

\* the loop head of a process that has run fewer than budget iterations
WLoop(p, budget) ==
  /\ procs[p].iteration_count < budget
  /\ \E hb_due \in BOOLEAN : WLoopTop(p, hb_due)

\* a step of worker process p while the limiter has no token to give
WorkerThrottled(p) ==
  \/ WCanWait(p)
  \/ \E timed_out \in BOOLEAN : WCanFail(p, timed_out)
  \/ WRateLimitHeartbeat(p)

\* a step of worker process p after the API refuses the request
WorkerRefused(p) ==
  \/ WRateLimitHit(p)
  \/ WRateLimitHeartbeat(p)
  \/ WInvalidKey(p)
  \/ WStopHeartbeat(p)

\* a step of worker process p that follows a pause, resume or stop command
WorkerControl(p) ==
  \/ \E time_due \in BOOLEAN : WControlPause(p, time_due)
  \/ \E time_due \in BOOLEAN : WControlStop(p, time_due)
  \/ WStopHeartbeat(p)
  \/ WPauseHeartbeat(p)
  \/ \E hb_due \in BOOLEAN : WPausedWait(p, hb_due)
  \/ \E hb_due \in BOOLEAN : WPausedResume(p, hb_due)
  \/ \E hb_due \in BOOLEAN : WPausedStop(p, hb_due)
  \/ WResumeHeartbeat(p)

(***************************************************************************)
(* Supervisor (WorkerManager) and store calls                              *)
(***************************************************************************)
Result(op, w, status, pid) == [op |-> op, pair |-> w, status |-> status, pid |-> pid]
\* what no WorkerManager call touches
SupervisorFrame ==
  UNCHANGED <<limits, limiter, today, lastCrash, settings, watchdog, progress, scan>>
SupervisorUnchanged == SupervisorFrame /\ UNCHANGED userStopped

\* the call is made by WorkerWatchdog.restart_worker and not by a user
CalledByWatchdog(w) == watchdog.restarting[w] # "none"

\* settings["annotators"][a][d]["enabled"]
settings_enabled(w) == settings[w]

\* start_worker: status.get('running') holds
StartAlreadyRunning(w) ==
  /\ get_worker_status(db, w).running
  /\ out' = Result("start_worker", w, "already_running", get_worker_status(db, w).pid)
  /\ UNCHANGED <<db, control, procs, processes, stops>> /\ SupervisorUnchanged

\* start_worker: len(get_all_running_workers()) >= max_concurrent_workers
StartLimitReached(w) ==
  /\ ~get_worker_status(db, w).running
  /\ Cardinality(running_workers(db)) >= max_concurrent_workers
  /\ db' = get_all_running_workers(db)
  /\ out' = Result("start_worker", w, "concurrency_limit_reached", NoPid)
  /\ UNCHANGED <<control, procs, processes, stops>> /\ SupervisorUnchanged

\* start_worker: the pair is disabled or missing in settings
StartDisabled(w) ==
  /\ ~get_worker_status(db, w).running
  /\ Cardinality(running_workers(db)) < max_concurrent_workers
  /\ ~settings_enabled(w)
  /\ db' = get_all_running_workers(db)
  /\ out' = Result("start_worker", w, "disabled", NoPid)
  /\ UNCHANGED <<control, procs, processes, stops>> /\ SupervisorUnchanged

\* start_worker: Popen, self.processes[key] = proc, register_worker_process
StartSpawn(w) ==
  /\ ~get_worker_status(db, w).running
  /\ Cardinality(running_workers(db)) < max_concurrent_workers
  /\ settings_enabled(w)
  /\ UnusedPids # {}
  /\ procs' = Spawn(procs, NextPid, w)
  /\ processes' = [processes EXCEPT ![w] = NextPid]
  /\ db' = register_worker_process(get_all_running_workers(db), w, NextPid)
  /\ out' = Result("start_worker", w, "started", NextPid)
  /\ userStopped' = IF CalledByWatchdog(w) THEN userStopped
                    ELSE [userStopped EXCEPT ![w] = FALSE]
  /\ UNCHANGED <<control, stops>> /\ SupervisorFrame

\* pause_worker: the control file is written, nothing is checked
pause_worker(w) ==
  /\ control' = [control EXCEPT ![w] = "pause"]
  /\ out' = Result("pause_worker", w, "pause_signal_sent", NoPid)
  /\ UNCHANGED <<db, procs, processes, stops>> /\ SupervisorUnchanged

\* resume_worker: the control file is written, nothing is checked
resume_worker(w) ==
  /\ control' = [control EXCEPT ![w] = "resume"]
  /\ out' = Result("resume_worker", w, "resume_signal_sent", NoPid)
  /\ UNCHANGED <<db, procs, processes, stops>> /\ SupervisorUnchanged

\* stop_worker: not pid or not is_running
StopNotRunning(w) ==
  /\ stops[w].phase = "idle"
  /\ get_worker_status(db, w).pid = NoPid \/ ~get_worker_status(db, w).running
  /\ db' = IF get_worker_status(db, w).pid # NoPid
           THEN unregister_worker_process(db, w)
           ELSE db
  /\ out' = Result("stop_worker", w, "not_running", NoPid)
  /\ UNCHANGED <<control, procs, processes, stops>> /\ SupervisorUnchanged

\* stop_worker: the stop command is written and proc.wait(timeout) begins
StopSignal(w) ==
  /\ stops[w].phase = "idle"
  /\ get_worker_status(db, w).pid # NoPid
  /\ get_worker_status(db, w).running
  /\ processes[w] # NoPid
  /\ control' = [control EXCEPT ![w] = "stop"]
  /\ stops' = [stops EXCEPT ![w] = [phase |-> "waiting",
                                    pid |-> get_worker_status(db, w).pid,
                                    handle |-> processes[w]]]
  /\ UNCHANGED <<db, procs, processes, out>> /\ SupervisorUnchanged

\* stop_worker without a Popen handle: the stop command is written, then
\* self.process_registry (an attribute WorkerManager never sets) raises
StopNoHandle(w) ==
  /\ stops[w].phase = "idle"
  /\ get_worker_status(db, w).pid # NoPid
  /\ get_worker_status(db, w).running
  /\ processes[w] = NoPid
  /\ control' = [control EXCEPT ![w] = "stop"]
  /\ out' = Result("stop_worker", w, "AttributeError", get_worker_status(db, w).pid)
  /\ UNCHANGED <<db, procs, processes, stops>> /\ SupervisorUnchanged

\* stop_worker: what follows the wait (processes entry, pid, heartbeat and
\* control file removed)
StopFinish(w, forced) ==
  /\ processes' = [processes EXCEPT ![w] = NoPid]
  /\ db' = cleanup_heartbeat(unregister_worker_process(db, w), w)
  /\ control' = [control EXCEPT ![w] = "none"]
  /\ stops' = [stops EXCEPT ![w] = NoStop]
  /\ out' = Result("stop_worker", w, IF forced THEN "stopped_forced" ELSE "stopped",
                   stops[w].pid)
  /\ userStopped' = IF CalledByWatchdog(w) THEN userStopped
                    ELSE [userStopped EXCEPT ![w] = TRUE]
  /\ SupervisorFrame

\* stop_worker: proc.wait returns, the process has exited
StopGraceful(w) ==
  /\ stops[w].phase = "waiting"
  /\ procs[stops[w].handle].state # "alive"
  /\ StopFinish(w, FALSE)
  /\ UNCHANGED procs

\* stop_worker: TimeoutExpired; proc.kill()
StopForced(w) ==
  /\ stops[w].phase = "waiting"
  /\ procs[stops[w].handle].state = "alive"
  /\ procs' = [procs EXCEPT ![stops[w].handle] =
                 [NoProc EXCEPT !.state = "dead", !.pair = procs[stops[w].handle].pair,
                                !.pc = "killed"]]
  /\ StopFinish(w, TRUE)

\* the backend restarts: WorkerManager.__init__ with an empty processes
\* dictionary, then _sync_processes_from_database
ManagerRestart ==
  /\ processes' = [w \in Pairs |-> NoPid]
  /\ stops' = [w \in Pairs |-> NoStop]
  /\ db' = get_all_running_workers(db)
  /\ out' = NoOut
  /\ UNCHANGED <<control, procs>> /\ SupervisorUnchanged

\* DatabaseManager.factory_reset is called; VACUUM raises out of it
FactoryReset ==
  /\ db' = factory_reset(db)
  /\ out' = Result("factory_reset", AnyPair,
                   IF vacuum_raises(TRUE) THEN "OperationalError" ELSE "done", NoPid)
  /\ UNCHANGED <<limits, limiter, control, today, procs, processes, stops, lastCrash, settings,
                 userStopped, watchdog,
                 progress, scan>>

(***************************************************************************)
(* SpecWorker: worker processes run from the command line, crash and are   *)
(* run again; no supervisor, so no control file is ever written.           *)
(***************************************************************************)
\* the pair whose worker SpecWorker runs
WorkerPair == <<1, "urgency">>

NextWorker ==
  \/ WorkerMain(WorkerPair)
  \/ \E p \in Pids : WorkerBody(p)
  \/ \E p \in Pids : WLoop(p, WorkerIters)
  \/ \E p \in Pids, outcome \in Outcomes : WAnnotate(p, outcome)
  \/ \E p \in Pids : WorkerThrottled(p)
  \/ \E p \in Pids : WorkerRefused(p)
  \/ \E p \in Pids : Kill(p)

SpecWorker == Init /\ [][NextWorker]_vars

\* C1: for every worker, total_completed + total_malformed equals the number
\* of its completed_samples rows, in every reachable state.
C1_CountersMatchRows ==
  \A w \in Pairs : Counted(db, w) = CountWorkerRows(db.completed_samples, w)

\* C2: completed_samples holds at most one row per (worker, sample_id), also
\* after a crash between save_annotation and add_completed_sample and the
\* re-annotation that follows.
C2_AtMostOneRow ==
  \A w \in Pairs, id \in SampleIds : CountRows(db.completed_samples, w, id) <= 1

\* a sample annotated again after such a crash, and recorded
C2_Witness ==
  /\ lastCrash.happened
  /\ CountRows(db.annotations, lastCrash.pair, lastCrash.sample) >= 2
  /\ CountRows(db.completed_samples, lastCrash.pair, lastCrash.sample) = 1

\* no add_completed_sample of the crashed worker has run since the crash
Unrecovered == lastCrash.happened /\ Counted(db, lastCrash.pair) = lastCrash.counted
\* process p holds a selected sample of the current iteration
HoldsSample(p) ==
  Alive(p) /\ procs[p].pc \in {"can", "consume", "consume_save", "generate", "save", "add"}
\* until a record is added, a restarted worker selects the crashed sample
C8_Reselects ==
  Unrecovered =>
    \A p \in LiveProcs(lastCrash.pair) :
      HoldsSample(p) => procs[p].sample.id = lastCrash.sample
\* the first add_completed_sample after the crash: one more annotation row,
\* exactly one completed_samples row, the counters one higher
C8_RecoveryStep ==
  \A p \in Pids :
    (/\ Unrecovered
     /\ At(p, "add")
     /\ procs[p].pair = lastCrash.pair
     /\ procs'[p].state = "alive"
     /\ procs'[p].pc # "add")
    => /\ CountRows(db'.annotations, lastCrash.pair, lastCrash.sample)
            = lastCrash.annotations + 1
       /\ CountRows(db'.completed_samples, lastCrash.pair, lastCrash.sample) = 1
       /\ Counted(db', lastCrash.pair) = lastCrash.counted + 1

C9_Step ==
  \A p \in Pids :
    (At(p, "select") /\ procs[p].sample.found /\ procs'[p].pc = "can")
    => procs'[p].sample.id > procs[p].sample.id

\* C9: of two successive iterations of a worker that each produce a
\* completion, the second selects a strictly greater corpus index.
C9_SelectionMonotone == [][C9_Step]_vars

(***************************************************************************)
(* SpecStore: a worker fills the store, factory_reset is called.           *)
(***************************************************************************)
NextStore ==
  \/ WorkerMain(WorkerPair)
  \/ \E p \in Pids : WorkerBody(p)
  \/ \E p \in Pids : WLoop(p, WorkerIters)
  \/ \E p \in Pids, outcome \in Outcomes : WAnnotate(p, outcome)
  \/ FactoryReset

InitSmall == InitWith(WorkerPerDay, WorkerBurst, SmallTarget)

SpecStore == InitSmall /\ [][NextStore]_vars

\* what factory_reset is to leave behind
FactoryResetDone(before, after) ==
  /\ \A w \in Pairs :
       /\ after.workers[w].enabled = before.workers[w].enabled
       /\ after.workers[w].target_count = before.workers[w].target_count
       /\ after.workers[w].status = "not_started"
       /\ after.workers[w].pid = NoPid
       /\ after.workers[w].total_completed = 0
       /\ after.workers[w].total_malformed = 0
       /\ after.workers[w].samples_per_min = 0
       /\ ~after.heartbeats[w].present
  /\ after.completed_samples = EmptyBag
  /\ after.annotations = EmptyBag
  /\ after.worker_events = {}

\* C10: factory_reset keeps enabled and target_count of every worker, sets
\* status not_started, pid null, the counters and samples_per_min to zero, and
\* leaves completed_samples, annotations, heartbeats and worker_events empty.
C10_FactoryReset == [][FactoryReset => FactoryResetDone(db, db')]_vars

\* the run so far is the malformed-tolerance scenario: one worker process,
\* never killed; every response to s2 failed validation, every other was valid
ScenarioBadSample == SampleIdAt(1)
ScenarioRun ==
  /\ \A p \in Pids : procs[p].state # "dead"
  /\ \A r \in BagToSet(db.annotations) : r.is_malformed <=> r.sample_id = ScenarioBadSample

\* C7: with corpus [s1, s2, s3], target 3 and s2 always failing validation,
\* the worker ends completed with total_completed = 2, total_malformed = 1 and
\* three completed_samples rows: the malformed sample is recorded once and the
\* worker moves on to the next sample.
C7_MalformedTolerance ==
  ScenarioRun =>
    LET row == db.workers[WorkerPair]
    IN /\ row.total_malformed <= 1
       /\ \A p \in LiveProcs(WorkerPair) :
            HoldsSample(p) /\ procs[p].pc # "add" =>
              CountRows(db.completed_samples, WorkerPair, procs[p].sample.id) = 0
       /\ row.status = "completed" =>
            /\ row.total_completed = 2
            /\ row.total_malformed = 1
            /\ CountWorkerRows(db.completed_samples, WorkerPair) = 3

(***************************************************************************)
(* SpecLimiter: the workers of both domains of one annotator share one     *)
(* limiter file; the limiter is constructed with small limits.             *)
(***************************************************************************)
InitLimiter == InitWith(LimiterPerDay, LimiterBurst, LimiterTarget)

NextLimiter ==
  \/ \E w \in Pairs : WorkerMain(w)
  \/ \E p \in Pids : WorkerBody(p)
  \/ \E p \in Pids : WLoop(p, LimiterIters)
  \/ \E p \in Pids : WAnnotate(p, "ok")
  \/ \E p \in Pids : WorkerThrottled(p)
  \/ TimePasses
  \/ DayRollover

SpecLimiter == InitLimiter /\ [][NextLimiter]_vars

\* C3: requests_today of a credential never exceeds requests_per_day, for any
\* interleaving of the can_make_request and consume_token steps of the
\* workers that share it.
C3_DailyCap ==
  \A c \in ApiKeyIds : limiter[c].requests_today <= limits.requests_per_day

(***************************************************************************)
(* SpecSupervisor: workers are started, paused, resumed and stopped        *)
(* through WorkerManager; processes die, heartbeats age, the backend       *)
(* restarts.                                                               *)
(***************************************************************************)
NextSupervisor ==
  \/ \E w \in {WorkerPair} : StartAlreadyRunning(w)
  \/ \E w \in {WorkerPair} : StartLimitReached(w)
  \/ \E w \in {WorkerPair} : StartSpawn(w)
  \/ \E w \in {WorkerPair} : pause_worker(w)
  \/ \E w \in {WorkerPair} : resume_worker(w)
  \/ \E w \in {WorkerPair} : StopNotRunning(w)
  \/ \E w \in {WorkerPair} : StopSignal(w)
  \/ \E w \in {WorkerPair} : StopGraceful(w)
  \/ \E w \in {WorkerPair} : StopForced(w)
  \/ \E p \in Pids : WorkerBody(p)
  \/ \E p \in Pids : WLoop(p, SupervisedIters)
  \/ \E p \in Pids : WorkerControl(p)
  \/ \E p \in Pids : WAnnotate(p, "ok")

SpecSupervisor == InitSmall /\ [][NextSupervisor]_vars

\* C4: at most one live worker process per (annotator_id, domain).
C4_OneProcessPerPair == \A w \in Pairs : Cardinality(LiveProcs(w)) <= 1

\* C5: the live worker processes never outnumber max_concurrent_workers.
C5_ConcurrencyCap == Cardinality({p \in Pids : Alive(p)}) <= max_concurrent_workers

\* C6: for a stored status running, get_worker_status answers crashed (and
\* running = false) when the pid is null, the process is dead or the heartbeat
\* is older than the timeout; it answers running only when none of these holds.
C6_StatusDerivation ==
  \A w \in Pairs :
    db.workers[w].status = "running" =>
      LET answer == get_worker_status(db, w)
          healthy == /\ db.workers[w].pid # NoPid
                     /\ is_process_running(db.workers[w].pid, w)
                     /\ db.heartbeats[w].present /\ db.heartbeats[w].fresh
      IN /\ ~healthy => (answer.status = "crashed" /\ ~answer.running)
         /\ answer.running => healthy

\* process p takes its add_completed_sample step
AddStep(p) == At(p, "add") /\ procs'[p].state = "alive" /\ procs'[p].pc # "add"

\* the step is idempotent on (worker, sample_id): nothing changes when the row
\* exists, else one row is added and exactly one counter grows by one
C11_Step ==
  \A p \in Pids :
    AddStep(p) =>
      LET w == procs[p].pair
          id == procs[p].sample.id
          old == db.workers[w]
          new == db'.workers[w]
      IN IF CountRows(db.completed_samples, w, id) > 0
         THEN /\ db'.completed_samples = db.completed_samples
              /\ new.total_completed = old.total_completed
              /\ new.total_malformed = old.total_malformed
         ELSE /\ CountRows(db'.completed_samples, w, id) = 1
              /\ \/ /\ new.total_completed = old.total_completed + 1
                    /\ new.total_malformed = old.total_malformed
                 \/ /\ new.total_malformed = old.total_malformed + 1
                    /\ new.total_completed = old.total_completed

\* C11: add_completed_sample is idempotent on (w, sample_id): a call whose row
\* exists inserts nothing and changes neither counter; a call that inserts a
\* row increments exactly one of the two counters by one.
C11_AddIdempotent == [][C11_Step]_vars

\* C12: for every credential the persisted token count stays within
\* 0 <= tokens <= burst_size, after every refill and every consume_token.
C12_TokensInRange ==
  \A c \in ApiKeyIds :
    limiter[c].present => (0 <= limiter[c].tokens /\ limiter[c].tokens <= limits.burst_size)

\* a credential drained by a consume_token that followed a refill
C12_Witness ==
  \E c \in ApiKeyIds :
    limiter[c].present /\ limiter[c].total_requests >= 2 /\ limiter[c].tokens = 0

\* process p takes the _save_state step of consume_token
ConsumeStep(p) == At(p, "consume_save") /\ procs'[p].pc = "generate"

\* every granted acquire adds one to total_requests and to requests_today of
\* the file, and takes one token when no refill is due and a token is there
C13_Step ==
  \A p \in Pids :
    ConsumeStep(p) =>
      LET c == api_key_id(procs[p].pair)
      IN /\ limiter'[c].total_requests = limiter[c].total_requests + 1
         /\ limiter'[c].requests_today = limiter[c].requests_today + 1
         /\ (limiter[c].age = 0 /\ limiter[c].tokens >= 1)
              => limiter'[c].tokens = limiter[c].tokens - 1

\* C13: the read-modify-write of a credential's state is serialized: after k
\* granted acquires by workers sharing the credential (no refill, same day)
\* total_requests and requests_today have grown by k and tokens dropped by k.
C13_NoLostUpdate == [][C13_Step]_vars

\* the first granted acquire on a new UTC date restarts the daily counter
C14_Step ==
  \A p \in Pids :
    ConsumeStep(p) =>
      LET c == api_key_id(procs[p].pair)
      IN limiter[c].day_start # today =>
           /\ limiter'[c].day_start = today
           /\ limiter'[c].requests_today = 1

\* C14: after the first granted acquire on a UTC date other than the stored
\* day_start, the persisted day_start is that date and requests_today counts
\* the acquires granted on it, so no UTC day sees more than requests_per_day.
C14_DayRollover == [][C14_Step]_vars

\* stop_worker for w returns status stopped in this step
StopReturns(w) == stops[w].phase = "waiting" /\ stops'[w].phase = "idle"

\* what holds when stop_worker returns stopped
C15_Step ==
  \A w \in Pairs :
    StopReturns(w) /\ out'.status \in {"stopped", "stopped_forced"} =>
      /\ \A p \in Pids : ~(procs'[p].state = "alive" /\ procs'[p].pair = w)
      /\ db'.workers[w].pid = NoPid
      /\ ~db'.heartbeats[w].present
      /\ control'[w] = "none"

\* C15: when stop_worker(a, d, timeout) returns stopped, no worker process of
\* (a, d) is alive, the worker row's pid is null, its heartbeat row is deleted
\* and the control file of (a, d) no longer exists.
C15_StopPostcondition == [][C15_Step]_vars


(***************************************************************************)
(* The supervisor is restarted while workers run: its Popen handles are    *)
(* lost, and workers are stopped through the pid stored in the database.   *)
(***************************************************************************)
NextRestart ==
  \/ \E w \in {WorkerPair} : StartAlreadyRunning(w)
  \/ \E w \in {WorkerPair} : StartSpawn(w)
  \/ ManagerRestart
  \/ \E w \in {WorkerPair} : StopNotRunning(w)
  \/ \E w \in {WorkerPair} : StopSignal(w)
  \/ \E w \in {WorkerPair} : StopNoHandle(w)
  \/ \E w \in {WorkerPair} : StopGraceful(w)
  \/ \E w \in {WorkerPair} : StopForced(w)
  \/ \E p \in Pids : WorkerBody(p)
  \/ \E p \in Pids : WLoop(p, SupervisedIters)
  \/ \E p \in Pids, time_due \in BOOLEAN : WControlStop(p, time_due)
  \/ \E p \in Pids : WStopHeartbeat(p)
  \/ \E p \in Pids : WAnnotate(p, "ok")

SpecRestart == InitSmall /\ [][NextRestart]_vars

\* stop_worker is called for a running worker whose handle the supervisor
\* does not hold, and returns or raises in this step
StopWithoutHandle(w) ==
  /\ stops[w].phase = "idle"
  /\ get_worker_status(db, w).pid # NoPid
  /\ get_worker_status(db, w).running
  /\ processes[w] = NoPid
  /\ out' # out
  /\ out'.op = "stop_worker"
  /\ out'.pair = w

C16_Step ==
  \A w \in Pairs :
    StopWithoutHandle(w) =>
      /\ out'.status \in {"stopped", "stopped_forced"}
      /\ out'.pid = get_worker_status(db, w).pid

\* C16: stop_worker for a running worker whose Popen handle the supervisor
\* does not hold polls the liveness of the pid, kills the process on timeout
\* and returns the outcome stopped with the pid; it never raises.
C16_StopWithoutHandle == [][C16_Step]_vars


\* the worker loop of p has been left because of rate limiting and p sends its
\* last heartbeat on the way to exit
RateLimitExit(p) == At(p, "rl_hb") /\ procs'[p].state = "alive" /\ procs'[p].pc = "cleanup"

C17_Step ==
  \A p \in Pids :
    RateLimitExit(p) => db'.workers[procs[p].pair].status = "paused"

\* C17: whenever the worker loop exits because of rate limiting (the model
\* call returned rate_limit, or the acquire failed by timeout or by the daily
\* quota), the worker status persisted at exit is paused.
C17_RateLimitExitPaused == [][C17_Step]_vars


\* p reads the stop command, in the main loop or in the paused wait loop, and
\* leaves the loop in this step; it writes no status afterwards
StopObserved(p) ==
  /\ procs[p].state = "alive"
  /\ procs[p].pc \in {"control", "paused"}
  /\ check_control_signal(procs[p].pair) = "stop"
  /\ procs'[p].state = "alive"
  /\ procs'[p].pc \in {"stop_hb", "cleanup"}

C18_Step ==
  \A p \in Pids :
    StopObserved(p) => db'.workers[procs[p].pair].status = "stopped"

\* C18: a worker that observes a stop control signal, in the running state or
\* inside the paused wait loop, persists status stopped before its process
\* exits.
C18_StopPersisted == [][C18_Step]_vars


(***************************************************************************)
(* Watchdog (WorkerWatchdog, ProcessRegistry, HeartbeatManager)            *)
(***************************************************************************)
\* WorkerWatchdog.max_restart_attempts
max_restart_attempts == 3

\* the pair whose settings entry says enabled: false
DisabledPair == <<1, "therapeutic">>

\* WorkerWatchdog._is_enabled
is_enabled(w) == settings[w]

\* ProcessRegistry.cleanup_dead_workers: the registry it leaves
cleanup_dead_workers(registry) ==
  [w \in Pairs |-> IF is_process_running(registry[w], w) THEN registry[w] ELSE NoPid]

\* a crash detection that reads the workers table instead of the registry:
\* the rows stored as running whose process is not running
check_crashed_workers_by_rows(registry) ==
  {w \in Pairs : db.workers[w].status = "running"
                   /\ ~is_process_running(db.workers[w].pid, w)}

\* WorkerWatchdog.check_crashed_workers: the registered pairs whose process
\* is not running
check_crashed_workers(registry) ==
  {w \in Pairs : registry[w] # NoPid /\ ~is_process_running(registry[w], w)}

\* HeartbeatManager.get_stuck_workers: the pairs whose heartbeat file is
\* older than heartbeat_timeout
get_stuck_workers(heartbeat_files) == {w \in Pairs : heartbeat_files[w] = "stale"}

\* ProcessRegistry.is_worker_actually_running
is_worker_actually_running(registry, w) ==
  registry[w] # NoPid /\ is_process_running(registry[w], w)

\* _should_auto_restart without the test of the attempt counter
should_auto_restart_uncounted(wd, w) ==
  /\ w \notin wd.blacklist
  /\ is_enabled(w)

\* WorkerWatchdog._should_auto_restart: what it returns
should_auto_restart(wd, w) ==
  /\ w \notin wd.blacklist
  /\ is_enabled(w)
  /\ wd.restart_attempts[w] < max_restart_attempts

\* WorkerWatchdog._should_auto_restart: the blacklist it leaves
blacklist_after(wd, w) ==
  IF w \notin wd.blacklist /\ is_enabled(w) /\ wd.restart_attempts[w] >= max_restart_attempts
  THEN wd.blacklist \cup {w}
  ELSE wd.blacklist

WatchdogUnchanged ==
  UNCHANGED <<limits, limiter, today, lastCrash, settings, userStopped, progress, scan>>

\* no restart_worker call is between its first and its last statement
NoRestartRunning == \A w \in Pairs : watchdog.restarting[w] = "none"

\* WorkerWatchdog.check_and_recover up to its restart loop: the registrations
\* of dead processes are removed, then the crashed and the stuck pairs are
\* collected; restart_worker follows for each of them
check_and_recover ==
  /\ NoRestartRunning
  /\ watchdog.to_restart = {}
  /\ LET registry == cleanup_dead_workers(watchdog.registry)
         workers_to_restart ==
           check_crashed_workers(registry) \cup get_stuck_workers(watchdog.heartbeat_files)
     IN /\ watchdog' = [watchdog EXCEPT !.registry = registry,
                                        !.to_restart = workers_to_restart]
        /\ out' = Result("check_and_recover", AnyPair,
                         IF workers_to_restart = {} THEN "nothing_found" ELSE "restarting",
                         NoPid)
  /\ UNCHANGED <<db, control, procs, processes, stops>> /\ WatchdogUnchanged

\* restart_worker: _should_auto_restart answers False
RestartRefused(w) ==
  /\ NoRestartRunning
  /\ ~should_auto_restart(watchdog, w)
  /\ watchdog' = [watchdog EXCEPT !.blacklist = blacklist_after(watchdog, w),
                                  !.to_restart = @ \ {w}]
  /\ out' = Result("restart_worker", w, "refused", NoPid)
  /\ UNCHANGED <<db, control, procs, processes, stops>> /\ WatchdogUnchanged

\* restart_worker: _should_auto_restart answers True, the attempt is counted
\* and stop_worker(annotator_id, domain, timeout=10) is called
RestartBegin(w) ==
  /\ NoRestartRunning
  /\ should_auto_restart(watchdog, w)
  /\ watchdog' = [watchdog EXCEPT !.restart_attempts[w] = @ + 1,
                                  !.restarting[w] = "stop",
                                  !.to_restart = @ \ {w}]
  /\ out' = Result("restart_worker", w, "stopping", NoPid)
  /\ UNCHANGED <<db, control, procs, processes, stops>> /\ WatchdogUnchanged

\* restart_worker is at its stop_worker call, which has not answered yet
RestartStops(w) ==
  /\ watchdog.restarting[w] = "stop"
  /\ out.op = "restart_worker" \/ stops[w].phase = "waiting"

\* restart_worker: stop_worker has returned or raised; the registry entry and
\* the heartbeat file are removed; start_worker is called
RestartCleanup(w) ==
  /\ watchdog.restarting[w] = "stop"
  /\ out.op = "stop_worker"
  /\ stops[w].phase = "idle"
  /\ watchdog' = [watchdog EXCEPT !.restarting[w] = "start",
                                  !.registry[w] = NoPid,
                                  !.heartbeat_files[w] = "none"]
  /\ out' = Result("restart_worker", w, "starting", NoPid)
  /\ UNCHANGED <<db, control, procs, processes, stops>> /\ WatchdogUnchanged

\* restart_worker is at its start_worker call, which has not answered yet
RestartStarts(w) ==
  /\ watchdog.restarting[w] = "start"
  /\ out.op = "restart_worker"

\* restart_worker: start_worker has answered; after a started answer the
\* attempts are forgotten if the registry shows the worker running
RestartFinish(w) ==
  /\ watchdog.restarting[w] = "start"
  /\ out.op = "start_worker"
  /\ watchdog' =
       [watchdog EXCEPT
          !.restarting[w] = "none",
          !.restart_attempts[w] =
             IF out.status = "started" /\ is_worker_actually_running(watchdog.registry, w)
             THEN 0 ELSE @]
  /\ out' = Result("restart_worker", w,
                   IF out.status = "started" THEN "restarted" ELSE "failed", out.pid)
  /\ UNCHANGED <<db, control, procs, processes, stops>> /\ WatchdogUnchanged

\* WorkerWatchdog.reset_blacklist
reset_blacklist ==
  /\ watchdog.blacklist # {} \/ \E w \in Pairs : watchdog.restart_attempts[w] # 0
  /\ watchdog' = [watchdog EXCEPT !.blacklist = {},
                                  !.restart_attempts = [w \in Pairs |-> 0]]
  /\ UNCHANGED <<db, control, procs, processes, stops, out>> /\ WatchdogUnchanged

\* WorkerWatchdog.add_to_blacklist
add_to_blacklist(w) ==
  /\ watchdog' = [watchdog EXCEPT !.blacklist = @ \cup {w}]
  /\ UNCHANGED <<db, control, procs, processes, stops, out>> /\ WatchdogUnchanged

\* WorkerWatchdog.remove_from_blacklist
remove_from_blacklist(w) ==
  /\ watchdog' = [watchdog EXCEPT !.blacklist = @ \ {w}]
  /\ UNCHANGED <<db, control, procs, processes, stops, out>> /\ WatchdogUnchanged


(***************************************************************************)
(* The watchdog beside the workers of one enabled pair, which are started  *)
(* by hand or by the watchdog's restarts, are killed, and whose heartbeats *)
(* age; the other pair is disabled and never runs, so start_worker never   *)
(* meets the concurrency limit here.  restart_worker is called by          *)
(* check_and_recover for the pairs it collected and, being a public        *)
(* coroutine of WorkerWatchdog, by any other caller.                       *)
(***************************************************************************)
InitWatchdog ==
  InitSettings(WorkerPerDay, WorkerBurst, SmallTarget, [w \in Pairs |-> w # DisabledPair])

NextWatchdog ==
  \/ \E w \in {WorkerPair} : WorkerMain(w)
  \/ \E p \in Pids : WRegister(p)
  \/ \E p \in Pids : WFirstHeartbeat(p)
  \/ \E p \in Pids : Kill(p)
  \/ \E w \in {WorkerPair} : HeartbeatAges(w)
  \/ check_and_recover
  \/ \E w \in Pairs : RestartRefused(w)
  \/ \E w \in Pairs : RestartBegin(w)
  \/ \E w \in Pairs : RestartStops(w) /\ StopNotRunning(w)
  \/ \E w \in Pairs : RestartStops(w) /\ StopSignal(w)
  \/ \E w \in Pairs : RestartStops(w) /\ StopNoHandle(w)
  \/ \E w \in Pairs : RestartStops(w) /\ StopGraceful(w)
  \/ \E w \in Pairs : RestartStops(w) /\ StopForced(w)
  \/ \E w \in Pairs : RestartCleanup(w)
  \/ \E w \in Pairs : RestartStarts(w) /\ StartAlreadyRunning(w)
  \/ \E w \in Pairs : RestartStarts(w) /\ StartSpawn(w)
  \/ \E w \in Pairs : RestartFinish(w)
  \/ reset_blacklist
  \/ \E w \in {WorkerPair} : add_to_blacklist(w)
  \/ \E w \in {WorkerPair} : remove_from_blacklist(w)

SpecWatchdog == InitWatchdog /\ [][NextWatchdog]_vars


\* the scheduling the monitor loop gives: check_and_recover runs every
\* check_interval seconds and each restart_worker it calls runs to its end
FairWatchdog ==
  /\ SpecWatchdog
  /\ WF_vars(check_and_recover)
  /\ WF_vars(\E w \in Pairs : w \in watchdog.to_restart /\ (RestartBegin(w) \/ RestartRefused(w)))
  /\ WF_vars(\E w \in Pairs :
               \/ RestartStops(w) /\ (StopNotRunning(w) \/ StopSignal(w) \/ StopNoHandle(w)
                                        \/ StopGraceful(w) \/ StopForced(w))
               \/ RestartCleanup(w)
               \/ RestartStarts(w) /\ (StartAlreadyRunning(w) \/ StartSpawn(w))
               \/ RestartFinish(w))

\* w is stored as running while its process is dead or its heartbeat is
\* older than the timeout, and the watchdog is allowed to restart it
NeedsRecovery(w) ==
  /\ db.workers[w].status = "running"
  /\ \/ db.workers[w].pid # NoPid /\ ~is_process_running(db.workers[w].pid, w)
     \/ db.heartbeats[w].present /\ ~db.heartbeats[w].fresh
  /\ should_auto_restart(watchdog, w)

\* C19: if a worker's process dies, or its heartbeat becomes older than the
\* timeout, while its stored status is running, and the pair is enabled, not
\* blacklisted and has fewer than max_restart_attempts attempts, then a later
\* watchdog tick attempts a restart of it (unless it stopped needing one).
C19_WatchdogRecovery ==
  \A w \in Pairs : NeedsRecovery(w) ~> (watchdog.restarting[w] # "none" \/ ~NeedsRecovery(w))

\* restart_worker goes past _should_auto_restart for w in this step
RestartPerformed(w) == watchdog.restarting[w] = "none" /\ watchdog'.restarting[w] # "none"

C20_Step ==
  \A w \in Pairs :
    RestartPerformed(w) =>
      /\ w \notin watchdog.blacklist
      /\ is_enabled(w)
      /\ watchdog.restart_attempts[w] < max_restart_attempts

\* C20: restart_attempts never exceeds max_restart_attempts for any pair; the
\* watchdog performs a restart only of a pair that is not blacklisted, is
\* enabled and has fewer than max_restart_attempts attempts, so a blacklisted
\* pair is not restarted until the blacklist is cleared.
C20_BoundedRestarts ==
  /\ [](\A w \in Pairs : watchdog.restart_attempts[w] <= max_restart_attempts)
  /\ [][C20_Step]_vars

\* the attempts of a pair are used up and a further restart_worker call has
\* put it on the blacklist
C20_Witness ==
  \E w \in Pairs :
    /\ watchdog.restart_attempts[w] = max_restart_attempts
    /\ w \in watchdog.blacklist
    /\ out = Result("restart_worker", w, "refused", NoPid)


(***************************************************************************)
(* The two workers of one annotator and their shared limiter file within   *)
(* one UTC day.                                                            *)
(***************************************************************************)
NextTokens ==
  \/ \E w \in Pairs : WorkerMain(w)
  \/ \E p \in Pids : WorkerBody(p)
  \/ \E p \in Pids : WLoop(p, LimiterIters)
  \/ \E p \in Pids : WAnnotate(p, "ok")
  \/ \E p \in Pids : WorkerThrottled(p)
  \/ TimePasses

SpecTokens == InitLimiter /\ [][NextTokens]_vars


(***************************************************************************)
(* A user starts and stops the workers of one pair through WorkerManager   *)
(* while the watchdog's check_and_recover runs; workers die by the kill of *)
(* a forced stop and their heartbeats age.  check_and_recover calls        *)
(* restart_worker for the pairs it has put into to_restart and for no      *)
(* other.  Of the worker, the start-up, the control check that reads the   *)
(* stop command and the exit are shown; a worker that reads no command     *)
(* stays at its control check.                                             *)
(***************************************************************************)
NextUserStop ==
  \/ \E w \in {WorkerPair} : StartSpawn(w)
  \/ \E w \in {WorkerPair} : StopNotRunning(w)
  \/ \E w \in {WorkerPair} : StopSignal(w)
  \/ \E w \in {WorkerPair} : StopGraceful(w)
  \/ \E w \in {WorkerPair} : StopForced(w)
  \/ \E p \in Pids : WRegister(p)
  \/ \E p \in Pids : WFirstHeartbeat(p)
  \/ \E p \in Pids : WLoadPrompt(p)
  \/ \E p \in Pids : WLoop(p, SupervisedIters)
  \/ \E p \in Pids, time_due \in BOOLEAN : WControlStop(p, time_due)
  \/ \E p \in Pids : WStopHeartbeat(p)
  \/ \E p \in Pids : WCleanup(p)
  \/ \E w \in {WorkerPair} : HeartbeatAges(w)
  \/ check_and_recover

SpecUserStop == InitSmall /\ [][NextUserStop]_vars

C22_PidIffRunning ==
  \A w \in Pairs : (db.workers[w].pid # NoPid) <=> (db.workers[w].status = "running")


(***************************************************************************)
(* One worker whose target_count is one more than the corpus holds         *)
(* (settings accept any target_count up to 100000; the corpus file is not   *)
(* compared with it).                                                      *)
(***************************************************************************)
InitShortCorpus == InitWith(WorkerPerDay, WorkerBurst, DatasetLen + 1)

NextShortCorpus ==
  \/ WorkerMain(WorkerPair)
  \/ \E p \in Pids : WorkerBody(p)
  \/ \E p \in Pids : WLoop(p, DatasetLen + 1)
  \/ \E p \in Pids, outcome \in Outcomes : WAnnotate(p, outcome)

SpecShortCorpus == InitShortCorpus /\ [][NextShortCorpus]_vars

\* C23: in every reachable state, a worker whose stored status is completed
\* has total_completed >= target_count.
C23_CompletedMeansTarget ==
  \A w \in Pairs :
    db.workers[w].status = "completed" =>
      db.workers[w].total_completed >= db.workers[w].target_count


\* C24: after any number of worker crashes, each followed by a restart, the
\* number of completed_samples rows of a worker never exceeds its
\* target_count.
C24_RowsWithinTarget ==
  \A w \in Pairs : CountWorkerRows(db.completed_samples, w) <= db.workers[w].target_count

\* a process was killed between save_annotation and add_completed_sample, a
\* later process recorded that sample, and the worker has target_count rows
C24_Witness ==
  /\ lastCrash.happened
  /\ CountRows(db.completed_samples, lastCrash.pair, lastCrash.sample) = 1
  /\ CountWorkerRows(db.completed_samples, lastCrash.pair)
       = db.workers[lastCrash.pair].target_count


(***************************************************************************)
(* The happy path: one enabled worker, tokens to spare, no control file,   *)
(* the prompt file present, and a parser that always succeeds.  The        *)
(* operating system schedules a live process, so every step of the worker  *)
(* that stays enabled is eventually taken.                                 *)
(***************************************************************************)
HappyStep(p) ==
  \/ WRegister(p)
  \/ WFirstHeartbeat(p)
  \/ WLoadPrompt(p)
  \/ WLoop(p, TargetCount + 1)
  \/ \E time_due \in BOOLEAN : WControlNone(p, time_due)
  \/ WSelect(p)
  \/ WTargetReached(p)
  \/ WCompletedHeartbeat(p)
  \/ WCanProceed(p)
  \/ WConsumeLoad(p)
  \/ WConsumeSave(p)
  \/ WAnnotate(p, "ok")
  \/ WSaveAnnotation(p)
  \/ WAddCompleted(p)
  \/ WCleanup(p)

NextHappy ==
  \/ WorkerMain(WorkerPair)
  \/ \E p \in Pids : WRegister(p)
  \/ \E p \in Pids : WFirstHeartbeat(p)
  \/ \E p \in Pids : WLoadPrompt(p)
  \/ \E p \in Pids : WLoop(p, TargetCount + 1)
  \/ \E p \in Pids, time_due \in BOOLEAN : WControlNone(p, time_due)
  \/ \E p \in Pids : WSelect(p)
  \/ \E p \in Pids : WTargetReached(p)
  \/ \E p \in Pids : WCompletedHeartbeat(p)
  \/ \E p \in Pids : WCanProceed(p)
  \/ \E p \in Pids : WConsumeLoad(p)
  \/ \E p \in Pids : WConsumeSave(p)
  \/ \E p \in Pids : WAnnotate(p, "ok")
  \/ \E p \in Pids : WSaveAnnotation(p)
  \/ \E p \in Pids : WAddCompleted(p)
  \/ \E p \in Pids : WCleanup(p)
  \/ HeartbeatAges(WorkerPair)
  \/ DayRollover

FairHappy ==
  /\ Init
  /\ [][NextHappy]_vars
  /\ \A p \in Pids : WF_vars(HappyStep(p))

\* the first n samples of the corpus with their parsed labels, as rows of w
FirstRows(w, n) ==
  {[worker |-> w, sample_id |-> SampleIdAt(i), label |-> LabelOf(SampleIdAt(i)),
    is_malformed |-> FALSE] : i \in 0..(n - 1)}

HappyEnd(w) ==
  /\ db.workers[w].status = "completed"
  /\ db.workers[w].total_completed = db.workers[w].target_count
  /\ db.workers[w].total_malformed = 0
  /\ RowsOf(db.completed_samples, w) = FirstRows(w, db.workers[w].target_count)
  /\ CountWorkerRows(db.completed_samples, w) = db.workers[w].target_count

\* C25: once a worker process of an enabled pair with a valid credential, a
\* target within the corpus and an always-succeeding parser runs, the pair
\* eventually has status completed, total_completed = target_count,
\* total_malformed = 0, and its completed_samples rows are exactly the first
\* target_count corpus samples with their parsed labels, none malformed.
C25_HappyPath == (LiveProcs(WorkerPair) # {}) ~> HappyEnd(WorkerPair)

C25_Witness == HappyEnd(WorkerPair) /\ LiveProcs(WorkerPair) = {}


(***************************************************************************)
(* Stop and resume: worker processes run from the command line, as         *)
(* scripts/test_single_worker.py runs them, so the supervisor holds no     *)
(* Popen handle when its stop_worker writes the stop command.  Every stop  *)
(* is followed by a restart: stop_worker is called only while the          *)
(* operating system has a pid left for the restarted process.              *)
(***************************************************************************)
\* a step of worker process p that ends the run on a stop command
StopStep(p) ==
  \/ \E time_due \in BOOLEAN : WControlStop(p, time_due)
  \/ WStopHeartbeat(p)

NextResume ==
  \/ WorkerMain(WorkerPair)
  \/ \E p \in Pids : HappyStep(p)
  \/ \E p \in Pids : StopStep(p)
  \/ UnusedPids # {} /\ StopNoHandle(WorkerPair)

FairResume ==
  /\ Init
  /\ [][NextResume]_vars
  /\ WF_vars(WorkerMain(WorkerPair))
  /\ \A p \in Pids : WF_vars(HappyStep(p) \/ StopStep(p))

\* a process of w has just been started and the run before it ended on a
\* stop command
Resumed(w) ==
  /\ db.workers[w].status = "stopped"
  /\ \E p \in LiveProcs(w) : procs[p].pc = "start"

\* C26: a run that a stop signal stopped and that is then restarted with the
\* same configuration ends as the uninterrupted run does: status completed,
\* total_completed = target_count, total_malformed = 0 and the
\* completed_samples rows of the first target_count corpus samples.
C26_StopAndResume == Resumed(WorkerPair) ~> HappyEnd(WorkerPair)


(***************************************************************************)
(* Pause and resume: one worker on the happy path while pause_worker and   *)
(* resume_worker write the control file.  pause_worker is called only      *)
(* during the first control_check_iterations iterations of a process, and  *)
(* the loop budget leaves the iterations the remaining samples need.       *)
(***************************************************************************)
PauseIters == control_check_iterations + TargetCount + 1

\* a step of worker process p on the happy path or in handle_pause
PauseStep(p) ==
  \/ HappyStep(p)
  \/ WLoop(p, PauseIters)
  \/ \E time_due \in BOOLEAN : WControlPause(p, time_due)
  \/ WPauseHeartbeat(p)
  \/ \E hb_due \in BOOLEAN : WPausedWait(p, hb_due)
  \/ \E hb_due \in BOOLEAN : WPausedResume(p, hb_due)
  \/ WResumeHeartbeat(p)

NextPause ==
  \/ WorkerMain(WorkerPair)
  \/ \E p \in Pids : PauseStep(p)
  \/ /\ \E p \in LiveProcs(WorkerPair) : procs[p].iteration_count < control_check_iterations
     /\ pause_worker(WorkerPair)
  \/ resume_worker(WorkerPair)

FairPause ==
  /\ Init
  /\ [][NextPause]_vars
  /\ \A p \in Pids : WF_vars(PauseStep(p))

\* p is inside handle_pause, after it persisted paused
InPause(p) == Alive(p) /\ procs[p].pc \in {"pause_hb", "paused"}

\* what a sample's processing writes: the limiter file, annotations,
\* completed_samples and the counters
SampleWork(w) ==
  <<limiter, db.annotations, db.completed_samples,
    db.workers[w].total_completed, db.workers[w].total_malformed>>

C27_Step ==
  \A p \in Pids :
    \* the control check of an iteration that is a multiple of
    \* control_check_iterations obeys a pause command
    /\ (/\ At(p, "control")
        /\ procs[p].iteration_count % control_check_iterations = 0
        /\ control[procs[p].pair] = "pause"
        /\ procs'[p] # procs[p])
       => /\ procs'[p].pc = "pause_hb"
          /\ db'.workers[procs[p].pair].status = "paused"
    \* nothing of a sample's processing happens inside handle_pause
    /\ InPause(p) => UNCHANGED SampleWork(procs[p].pair)
    \* handle_pause is left only on a resume command, with status running
    /\ (InPause(p) /\ procs'[p].pc \notin {"pause_hb", "paused"})
       => /\ control[procs[p].pair] = "resume"
          /\ procs'[p].pc = "resume_hb"
          /\ db'.workers[procs[p].pair].status = "running"

\* p has observed a resume command and persisted status running
ResumeObserved(p) == At(p, "resume_hb")
\* p has persisted status paused once more
PausedAgain(w) == \E p \in LiveProcs(w) : procs[p].pc = "pause_hb"

\* C27: a running worker obeys a pause command at the latest in the next
\* iteration whose number is a multiple of control_check_iterations, and
\* persists paused; while it is paused no limiter token, annotation,
\* completed_samples row or counter changes; it leaves the pause only on a
\* resume command, persisting running; and once resumed it completes the
\* remaining samples unless it is paused again.
C27_PauseResume ==
  /\ [][C27_Step]_vars
  /\ \A p \in Pids : ResumeObserved(p) ~> (HappyEnd(WorkerPair) \/ PausedAgain(WorkerPair))

\* a worker that completed a sample obeyed a pause command in iteration
\* control_check_iterations and has now observed the resume command
C27_Witness ==
  \E p \in Pids :
    /\ At(p, "resume_hb")
    /\ procs[p].iteration_count = control_check_iterations
    /\ db.workers[procs[p].pair].total_completed > 0


\* the annotations and completed_samples rows and the counters of worker w
Recorded(w) ==
  <<db.annotations, db.completed_samples,
    db.workers[w].total_completed, db.workers[w].total_malformed>>

C28_Step ==
  \A p \in Pids :
    \* the model client answers INVALID_KEY
    /\ (At(p, "generate") /\ procs'[p].pc = "stop_hb")
       => /\ db'.workers[procs[p].pair].status = "stopped"
          /\ UNCHANGED Recorded(procs[p].pair)
    \* the loop is left: the stopped heartbeat, the clean-up, the exit
    /\ (Alive(p) /\ procs[p].pc \in {"stop_hb", "cleanup"} /\ procs'[p] # procs[p])
       => /\ procs'[p].pc \in {"cleanup", "exited", "killed"}
          /\ UNCHANGED Recorded(procs[p].pair)

\* C28: when the model client reports an invalid credential for a sample,
\* the worker stores status stopped and leaves its loop; no annotations or
\* completed_samples row is written for the sample and total_completed and
\* total_malformed keep their values.
C28_InvalidKeyStops == [][C28_Step]_vars

\* a worker stopped on an invalid credential for a sample it never annotated
C28_Witness ==
  \E p \in Pids :
    /\ At(p, "stop_hb")
    /\ procs[p].sample.found
    /\ db.workers[procs[p].pair].status = "stopped"
    /\ CountRows(db.annotations, procs[p].pair, procs[p].sample.id) = 0
    /\ CountRows(db.completed_samples, procs[p].pair, procs[p].sample.id) = 0


(***************************************************************************)
(* Configuration: DatabaseManager.initialize_workers, called by            *)
(* WorkerManager.__init__ with the settings file it has just read, while   *)
(* a worker of the happy path makes progress.                              *)
(***************************************************************************)
\* settings["annotators"][a][d] is missing (KeyError / TypeError)
NotConfigured == [configured |-> FALSE, enabled |-> FALSE, target_count |-> 0]
\* the settings files initialize_workers is called with
Cfgs ==
  [Pairs -> {NotConfigured} \cup
            [configured : {TRUE}, enabled : BOOLEAN, target_count : {SmallTarget, TargetCount}]]

\* initialize_workers with INSERT OR REPLACE in place of the upsert
initialize_workers_replacing(d, cfg) ==
  [d EXCEPT !.workers =
     [w \in Pairs |->
        IF cfg[w].configured
        THEN NewWorkerRow(cfg[w].enabled, cfg[w].target_count)
        ELSE d.workers[w]]]

\* DatabaseManager.initialize_workers: every pair has its row already, so the
\* upsert takes its DO UPDATE branch and INSERT OR IGNORE does nothing
initialize_workers(d, cfg) ==
  [d EXCEPT !.workers =
     [w \in Pairs |->
        IF cfg[w].configured
        THEN [d.workers[w] EXCEPT !.enabled = cfg[w].enabled,
                                  !.target_count = cfg[w].target_count]
        ELSE d.workers[w]]]

\* WorkerManager.__init__: settings.json, holding cfg, is read and handed to
\* initialize_workers
InitializeWorkers(cfg) ==
  /\ settings' = [w \in Pairs |-> cfg[w].configured /\ cfg[w].enabled]
  /\ db' = initialize_workers(db, cfg)
  /\ out' = Result("initialize_workers", AnyPair, "done", NoPid)
  /\ UNCHANGED <<limits, limiter, control, today, procs, processes, stops, lastCrash,
                 userStopped, watchdog,
                 progress, scan>>

NextConfig ==
  \/ WorkerMain(WorkerPair)
  \/ \E p \in Pids : HappyStep(p)
  \/ \E cfg \in Cfgs : InitializeWorkers(cfg)

SpecConfig == Init /\ [][NextConfig]_vars

\* the worker row without the two columns initialize_workers may set
Progress(row) == [row EXCEPT !.enabled = FALSE, !.target_count = 0]

C29_Step ==
  \A cfg \in Cfgs :
    InitializeWorkers(cfg) =>
      /\ \A w \in Pairs : Progress(db'.workers[w]) = Progress(db.workers[w])
      /\ db'.completed_samples = db.completed_samples
      /\ db'.annotations = db.annotations
      /\ db'.heartbeats = db.heartbeats
      /\ initialize_workers(db', cfg) = db'

\* C29: initialize_workers(cfg) changes nothing of an existing worker row but
\* enabled and target_count (status, pid, total_completed, total_malformed
\* stay), leaves completed_samples, annotations and heartbeats as they are,
\* and a second call with the same cfg changes nothing.
C29_InitializePreserves == [][C29_Step]_vars

\* initialize_workers lowered the target of a running worker that has
\* completed samples, annotations and a heartbeat row
C29_Witness ==
  /\ out.op = "initialize_workers"
  /\ db.workers[WorkerPair].status = "running"
  /\ db.workers[WorkerPair].pid # NoPid
  /\ db.workers[WorkerPair].total_completed > 0
  /\ db.workers[WorkerPair].target_count = SmallTarget
  /\ db.heartbeats[WorkerPair].present


(***************************************************************************)
(* Reset of one worker: DatabaseManager.reset_worker, called while the     *)
(* workers of the pairs run one after the other on the happy path.         *)
(***************************************************************************)
\* DELETE FROM <table> WHERE worker_id = ?
DeleteRows(table, w) ==
  [r \in {x \in BagToSet(table) : x.worker # w} |-> CopiesIn(r, table)]

\* reset_worker with its DELETE statements missing their WHERE clause
reset_worker_unscoped(d, w) ==
  [d EXCEPT !.annotations = EmptyBag,
            !.completed_samples = EmptyBag,
            !.heartbeats = [v \in Pairs |-> NoHeartbeat],
            !.workers[w] = NewWorkerRow(d.workers[w].enabled, d.workers[w].target_count),
            !.worker_events = @ \cup {w}]

\* DatabaseManager.reset_worker (the row of the pair exists)
reset_worker(d, w) ==
  [d EXCEPT !.annotations = DeleteRows(@, w),
            !.completed_samples = DeleteRows(@, w),
            !.heartbeats[w] = NoHeartbeat,
            !.workers[w] = [@ EXCEPT !.status = "not_started", !.pid = NoPid,
                                     !.total_completed = 0, !.total_malformed = 0,
                                     !.samples_per_min = 0],
            !.worker_events = @ \cup {w}]

\* reset_worker(annotator_id, domain) is called
ResetWorker(w) ==
  /\ db' = reset_worker(db, w)
  /\ out' = Result("reset_worker", w, "done", NoPid)
  /\ UNCHANGED <<limits, limiter, control, today, procs, processes, stops, lastCrash,
                 settings, userStopped, watchdog,
                 progress, scan>>

NextReset ==
  \/ \E w \in Pairs : (\A p \in Pids : ~Alive(p)) /\ WorkerMain(w)
  \/ \E p \in Pids : HappyStep(p)
  \/ \E w \in Pairs : ResetWorker(w)

SpecReset == Init /\ [][NextReset]_vars

\* the rows of a table that belong to the workers other than w, with their
\* numbers of copies
OtherRows(table, w) ==
  {<<r, CopiesIn(r, table)>> : r \in {x \in BagToSet(table) : x.worker # w}}

C30_Step ==
  \A w \in Pairs :
    ResetWorker(w) =>
      /\ RowsOf(db'.completed_samples, w) = {}
      /\ RowsOf(db'.annotations, w) = {}
      /\ ~db'.heartbeats[w].present
      /\ db'.workers[w].status = "not_started"
      /\ db'.workers[w].pid = NoPid
      /\ db'.workers[w].total_completed = 0
      /\ db'.workers[w].total_malformed = 0
      /\ db'.workers[w].enabled = db.workers[w].enabled
      /\ db'.workers[w].target_count = db.workers[w].target_count
      /\ \A v \in Pairs \ {w} :
           /\ db'.workers[v] = db.workers[v]
           /\ db'.heartbeats[v] = db.heartbeats[v]
      /\ OtherRows(db'.completed_samples, w) = OtherRows(db.completed_samples, w)
      /\ OtherRows(db'.annotations, w) = OtherRows(db.annotations, w)

\* C30: reset_worker(w) leaves no completed_samples, annotations or
\* heartbeats row of w, sets w's status to not_started, its pid to null and
\* its counters to zero, keeps w's enabled and target_count, and changes no
\* row of any other worker in workers, completed_samples, annotations or
\* heartbeats.
C30_ResetWorker == [][C30_Step]_vars

\* reset_worker was called for a worker in the middle of its run, while
\* another worker has completed samples
C30_Witness ==
  \E p \in Pids :
    /\ out.op = "reset_worker"
    /\ out.pair = procs[p].pair
    /\ Alive(p)
    /\ procs[p].pc = "loop"
    /\ procs[p].iteration_count > 0
    /\ CountWorkerRows(db.completed_samples, procs[p].pair) = 0
    /\ db.workers[procs[p].pair].status = "not_started"
    /\ \E v \in Pairs \ {procs[p].pair} : CountWorkerRows(db.completed_samples, v) > 0


(***************************************************************************)
(* ProgressLogger: the progress.json file of a pair, written and read by   *)
(* ProgressLogger instances (scripts/test_progress_logger.py).  Every      *)
(* method loads the file first, so an instance carries nothing from one    *)
(* call to the next.                                                       *)
(***************************************************************************)
\* JSON null (sample ids are positive)
NoneValue == 0

\* json.dump(data, f): the object as its key/value pairs
json_dump(data) ==
  << <<"status", data.status>>,
     <<"completed_ids", data.completed_ids>>,
     <<"malformed_ids", data.malformed_ids>>,
     <<"last_processed_id", data.last_processed_id>>,
     <<"stats", << <<"total_completed", data.stats.total_completed>>,
                   <<"malformed_count", data.stats.malformed_count>> >> >> >>

\* the value stored under key in the pairs of a JSON object
json_get(pairs, key) ==
  LET i == CHOOSE j \in 1..Len(pairs) : pairs[j][1] = key
  IN pairs[i][2]

\* json.load(f)
json_load(text) ==
  [status |-> json_get(text, "status"),
   completed_ids |-> json_get(text, "completed_ids"),
   malformed_ids |-> json_get(text, "malformed_ids"),
   last_processed_id |-> json_get(text, "last_processed_id"),
   stats |-> [total_completed |-> json_get(json_get(text, "stats"), "total_completed"),
              malformed_count |-> json_get(json_get(text, "stats"), "malformed_count")]]

\* atomic_write_json(data, path)
atomic_write_json(data) == [exists |-> TRUE, text |-> json_dump(data)]

\* ProgressLogger.load: the progress dictionary of a file that does not exist
NewProgress ==
  [status |-> "not_started", completed_ids |-> <<>>, malformed_ids |-> <<>>,
   last_processed_id |-> NoneValue,
   stats |-> [total_completed |-> 0, malformed_count |-> 0]]

InList(id, ids) == \E i \in 1..Len(ids) : ids[i] = id

\* ProgressLogger.save without the recount of the two lists
save_uncounted(data) == atomic_write_json(data)

\* ProgressLogger.save: the file it writes
save(data) ==
  atomic_write_json([data EXCEPT !.stats.total_completed = Len(data.completed_ids),
                                 !.stats.malformed_count = Len(data.malformed_ids)])

\* ProgressLogger.load: the file it leaves (it saves a new one when none exists)
load_file(file) == IF file.exists THEN file ELSE save(NewProgress)
\* ProgressLogger.load: the dictionary it returns
load(file) == json_load(load_file(file).text)

\* ProgressLogger.add_completed: the file it leaves
add_completed(file, sample_id, malformed) ==
  LET loaded == load(file)
      listed == IF malformed
                THEN IF InList(sample_id, loaded.malformed_ids)
                     THEN loaded
                     ELSE [loaded EXCEPT !.malformed_ids = Append(@, sample_id)]
                ELSE IF InList(sample_id, loaded.completed_ids)
                     THEN loaded
                     ELSE [loaded EXCEPT !.completed_ids = Append(@, sample_id)]
  IN save([listed EXCEPT !.last_processed_id = sample_id])

\* ProgressLogger.update_status: the file it leaves
update_status(file, new_status) == save([load(file) EXCEPT !.status = new_status])

ProgressUnchanged ==
  UNCHANGED <<db, limits, limiter, control, today, procs, processes, stops, lastCrash,
              settings, userStopped, watchdog, scan>>

\* ProgressLogger(a, d).load()
ProgressLoad(w) ==
  /\ progress' = [progress EXCEPT ![w] = load_file(@)]
  /\ out' = Result("load", w, load(progress[w]).status, NoPid)
  /\ ProgressUnchanged

\* ProgressLogger(a, d).add_completed(sample_id, label, malformed)
ProgressAddCompleted(w, sample_id, malformed) ==
  /\ progress' = [progress EXCEPT ![w] = add_completed(@, sample_id, malformed)]
  /\ out' = Result("add_completed", w, "done", NoPid)
  /\ ProgressUnchanged

\* ProgressLogger(a, d).update_status(new_status)
ProgressUpdateStatus(w, new_status) ==
  /\ progress' = [progress EXCEPT ![w] = update_status(@, new_status)]
  /\ out' = Result("update_status", w, new_status, NoPid)
  /\ ProgressUnchanged

NextProgress ==
  \/ \E w \in {WorkerPair} : ProgressLoad(w)
  \/ \E w \in {WorkerPair}, id \in SampleIds, malformed \in BOOLEAN :
       ProgressAddCompleted(w, id, malformed)
  \/ \E w \in {WorkerPair}, s \in {"running", "stopped"} : ProgressUpdateStatus(w, s)

SpecProgress == Init /\ [][NextProgress]_vars

NoDuplicates(ids) == \A i, j \in 1..Len(ids) : ids[i] = ids[j] => i = j

\* C31: in every progress.json that exists, completed_ids and malformed_ids
\* hold no id twice, stats.total_completed is the length of completed_ids and
\* stats.malformed_count the length of malformed_ids, and a new
\* ProgressLogger's load() returns the data the file holds and leaves the
\* file as it is.
C31_ProgressConsistent ==
  \A w \in Pairs :
    progress[w].exists =>
      LET data == json_load(progress[w].text)
      IN /\ NoDuplicates(data.completed_ids)
         /\ NoDuplicates(data.malformed_ids)
         /\ data.stats.total_completed = Len(data.completed_ids)
         /\ data.stats.malformed_count = Len(data.malformed_ids)
         /\ load(progress[w]) = data
         /\ load_file(progress[w]) = progress[w]
         /\ atomic_write_json(data) = progress[w]

\* add_completed was called again with an id already listed, and both lists
\* hold ids
C31_Witness ==
  /\ out.op = "add_completed"
  /\ progress[WorkerPair].exists
  /\ LET data == json_load(progress[WorkerPair].text)
     IN /\ Len(data.completed_ids) >= 2
        /\ Len(data.malformed_ids) >= 1
        /\ data.last_processed_id # NoneValue
        /\ data.last_processed_id # data.completed_ids[Len(data.completed_ids)]
        /\ InList(data.last_processed_id, data.completed_ids)
        /\ ~InList(data.last_processed_id, data.malformed_ids)


(***************************************************************************)
(* Status reads: DatabaseManager.get_worker_status, called for a worker    *)
(* that runs, is killed, or whose heartbeat grows old.                     *)
(***************************************************************************)
\* get_worker_status(annotator_id, domain) is called: one SELECT, no write
GetWorkerStatus(w) ==
  /\ out' = Result("get_worker_status", w, get_worker_status(db, w).status,
                   get_worker_status(db, w).pid)
  /\ UNCHANGED <<db, limits, limiter, control, today, procs, processes, stops, lastCrash,
                 settings, userStopped, watchdog, progress, scan>>

NextStatus ==
  \/ WorkerMain(WorkerPair)
  \/ \E p \in Pids : HappyStep(p)
  \/ \E p \in Pids : Kill(p)
  \/ HeartbeatAges(WorkerPair)
  \/ \E w \in {WorkerPair} : GetWorkerStatus(w)

SpecStatus == InitSmall /\ [][NextStatus]_vars

C32_Step ==
  \A w \in Pairs :
    (GetWorkerStatus(w) /\ db.workers[w].status = "running" /\ get_worker_status(db, w).stale)
      => db'.workers[w].status = "crashed"

\* C32: a get_worker_status call that finds the stored status running with
\* no live heartbeat leaves the stored status crashed.
C32_DerivedStatusPersisted == [][C32_Step]_vars


(***************************************************************************)
(* get_all_running_workers step by step: its SELECT, then for every row    *)
(* selected the /proc check and the update to crashed, then its return,    *)
(* while worker processes register, run and are killed.                    *)
(***************************************************************************)
ScanUnchanged ==
  UNCHANGED <<limits, limiter, control, today, procs, processes, stops, out, lastCrash,
              settings, userStopped, watchdog, progress>>

\* get_all_running_workers: SELECT ... WHERE status = 'running' AND pid IS NOT NULL
ScanSelect ==
  /\ scan.phase = "idle"
  /\ scan' = [phase |-> "checking",
              rows |-> {<<w, db.workers[w].pid>> : w \in RunningRows(db)},
              inspected |-> RunningRows(db),
              running_workers |-> {}]
  /\ UNCHANGED db /\ ScanUnchanged

\* get_all_running_workers: the loop body for one selected row, with the
\* pid the SELECT returned
ScanVerify(r) ==
  /\ scan.phase = "checking"
  /\ r \in scan.rows
  /\ IF is_process_running(r[2], r[1])
     THEN /\ scan' = [scan EXCEPT !.rows = @ \ {r}, !.running_workers = @ \cup {r[1]}]
          /\ UNCHANGED db
     ELSE /\ scan' = [scan EXCEPT !.rows = @ \ {r}]
          /\ db' = update_worker_status(db, r[1], "crashed", NoPid, TRUE)
  /\ ScanUnchanged

\* get_all_running_workers: return running_workers
ScanReturn ==
  /\ scan.phase = "checking"
  /\ scan.rows = {}
  /\ scan' = [scan EXCEPT !.phase = "idle"]
  /\ UNCHANGED db /\ ScanUnchanged

NextScan ==
  \/ WorkerMain(WorkerPair)
  \/ \E p \in Pids : WRegister(p)
  \/ \E p \in Pids : WFirstHeartbeat(p)
  \/ \E p \in Pids : Kill(p)
  \/ ScanSelect
  \/ \E r \in Pairs \X Pids : ScanVerify(r)
  \/ ScanReturn

SpecScan == InitSmall /\ [][NextScan]_vars

C33_Step ==
  \A w \in Pairs :
    (/\ scan.phase = "checking"
     /\ db.workers[w].status = "running"
     /\ db'.workers[w].status = "crashed")
      => ~is_process_running(db.workers[w].pid, w)

\* C33: get_all_running_workers marks a row crashed only when the process
\* registered in the row at that moment is not alive, also when a worker
\* process registers itself between the SELECT and the update.
C33_RunningWorkersExact == [][C33_Step]_vars


NextOverlap ==
  \/ StartSpawn(WorkerPair)
  \/ StopNotRunning(WorkerPair)
  \/ \E p \in Pids : HappyStep(p)

SpecOverlap == Init /\ [][NextOverlap]_vars

\* corpus indexes of the samples that have a completed_samples row of w
CompletedIndexes(w) ==
  {i \in 0..(DatasetLen - 1) :
     CountRows(db.completed_samples, w, SampleIdAt(i)) >= 1}

\* C35: in every reachable state the sample ids in completed_samples of a
\* worker are the first k corpus entries for some k: a row for corpus index
\* n+1 exists only if a row for index n exists.
C35_CorpusOrderNoGaps ==
  \A w \in Pairs :
    \A n \in 0..(DatasetLen - 2) :
      (n + 1) \in CompletedIndexes(w) => n \in CompletedIndexes(w)


(***************************************************************************)
(* SpecSignals: pause_worker and resume_worker are called only until a    *)
(* second process of the pair is started, so every signal a later process *)
(* finds in the control file was written before that process was started. *)
(***************************************************************************)
\* the pid of the first process started in a behaviour
FirstPid == CHOOSE p \in Pids : \A q \in Pids : p <= q

OnlyFirstStarted == UnusedPids = Pids \ {FirstPid}

NextSignals ==
  \/ WorkerMain(WorkerPair)
  \/ \E p \in Pids : PauseStep(p)
  \/ OnlyFirstStarted /\ pause_worker(WorkerPair)
  \/ OnlyFirstStarted /\ resume_worker(WorkerPair)

SpecSignals == Init /\ [][NextSignals]_vars

\* process p acts on the command it read: it enters handle_pause or
\* handle_stop, or leaves the paused wait loop
Dispatches(p) ==
  \/ At(p, "control") /\ procs'[p].pc \in {"pause_hb", "stop_hb"}
  \/ At(p, "paused") /\ procs'[p].pc \in {"resume_hb", "cleanup"}

\* C36: a control signal is consumed once it was dispatched: a worker process
\* started after the signal was written never acts on it.
C36_Step == \A p \in Pids \ {FirstPid} : ~Dispatches(p)

C36_SignalsConsumed == [][C36_Step]_vars


\* run() of process p returns in this step
RunReturns(p) == Alive(p) /\ procs'[p].state = "dead" /\ procs'[p].pc = "exited"

\* C37: on every exit path of AnnotationWorker.run the heartbeat row of the
\* worker has been deleted by the time run returns.
C37_Step ==
  \A p \in Pids : RunReturns(p) => ~db'.heartbeats[procs[p].pair].present

C37_ShutdownClearsHeartbeat == [][C37_Step]_vars


\* the stored pid of w names a live process of w that has not yet written
\* its first heartbeat
AwaitingFirstHeartbeat(w) ==
  /\ db.workers[w].status = "running"
  /\ is_process_running(db.workers[w].pid, w)
  /\ procs[db.workers[w].pid].pc \in {"start", "hb0"}

\* C38: a worker registered as running whose process is alive is not reported
\* as crashed (running = false) by get_worker_status merely because its first
\* heartbeat has not been written yet.
C38_NoCrashBeforeFirstHeartbeat ==
  \A w \in Pairs :
    AwaitingFirstHeartbeat(w) =>
      /\ get_worker_status(db, w).status # "crashed"
      /\ get_worker_status(db, w).running


\* C39: when stop_worker(a, d) returns, with stopped or with not_running, no
\* worker process of (a, d) is alive; a worker alive in the paused wait loop
\* is stopped too, not only unregistered.
C39_Step ==
  \A w \in Pairs :
    (StopNotRunning(w) \/ StopReturns(w)) => \A p \in Pids : ~(procs'[p].state = "alive" /\ procs'[p].pair = w)

C39_StopLeavesNoProcess == [][C39_Step]_vars

\* the same for a worker that is in the paused wait loop when stop_worker
\* answers not_running
C39_PausedStep ==
  \A w \in Pairs :
    (StopNotRunning(w) /\ \E p \in LiveProcs(w) : procs[p].pc = "paused")
      => \A p \in Pids : ~(procs'[p].state = "alive" /\ procs'[p].pair = w)


C39_PausedStopLeavesNoProcess == [][C39_PausedStep]_vars


(***************************************************************************)
(* SpecFrozen: the workers of the pairs that share a credential acquire    *)
(* from its limiter while no refill period passes and the date stays.     *)
(***************************************************************************)
NextFrozen ==
  \/ \E w \in Pairs : WorkerMain(w)
  \/ \E p \in Pids : WorkerBody(p)
  \/ \E p \in Pids : WLoop(p, LimiterIters)
  \/ \E p \in Pids : WAnnotate(p, "ok")
  \/ \E p \in Pids : WorkerThrottled(p)

InitFrozen == InitWith(LimiterPerDay, LimiterBurst, SmallTarget)

SpecFrozen == InitFrozen /\ [][NextFrozen]_vars

\* the acquire_sync calls that returned True for credential c: those whose
\* request is being made or saved, and those whose annotation is stored
RECURSIVE StoredAnnotations(_, _)
StoredAnnotations(c, ws) ==
  IF ws = {} THEN 0
  ELSE LET w == CHOOSE x \in ws : TRUE
       IN (IF api_key_id(w) = c THEN CountWorkerRows(db.annotations, w) ELSE 0)
          + StoredAnnotations(c, ws \ {w})

Acquired(c) ==
  Cardinality({p \in Pids : /\ Alive(p)
                            /\ api_key_id(procs[p].pair) = c
                            /\ procs[p].pc \in {"generate", "save"}})
  + StoredAnnotations(c, Pairs)

\* C40: no token is granted twice: with no refill, a credential whose bucket
\* starts with burst_size tokens has at most burst_size acquires that return
\* true, over all workers sharing it and any interleaving of their
\* can_make_request and consume_token steps.
C40_NoTokenGrantedTwice ==
  \A c \in ApiKeyIds : Acquired(c) <= limits.burst_size

====
